---- MODULE Spec2Model ----
(***************************************************************************)
(* A model of sawmill's attribute store, FlatAttributes                    *)
(* (flat_attributes.go).                                                   *)
(*                                                                         *)
(* A Go string is modelled as a tuple of one-character strings, so that    *)
(* strings.Join and strings.Split are computed and not assumed.  A Go map  *)
(* is a reference: the maps live in `heap` and a store's data field holds  *)
(* an index into it (or NilRef) so that two stores sharing one map is a      *)
(* state the model can express.  A *FlatAttributes is an index into        *)
(* `stores`.                                                               *)
(***************************************************************************)
EXTENDS Integers, Sequences, FiniteSets, Bags, TLC

VARIABLES
    heap,    \* the maps allocated so far
    stores,  \* the FlatAttributes allocated so far
    last,    \* the call just made, with its result
    origin,  \* origin[c]: the store that c was cloned from, or NilRef
    nops,    \* the number of calls made
    gs,      \* the goroutines: each one's call, its position in it, its locals
    mu,      \* mu[f]: the sync.RWMutex of store f
    scenario, \* which program the goroutines run
    records, \* the Records allocated so far
    flatAttributesPool, \* the stores in flatAttributesPool
    recordPool, \* the records in recordPool
    recursiveMapPool, \* the nodes in recursiveMapPool
    acquired, \* the stores, the records and the records' stores that are
             \* handed out and not returned yet; the stores ever written
             \* to by a borrower
    maskIn,  \* the arguments of maskValue
    maskOut, \* what maskValue returned for them
    expandIn, \* the arguments of ExpandStruct
    expandDone, \* whether ExpandStruct has been called on them
    nodes,   \* the nodes of the RecursiveMaps
    arrays,  \* the backing arrays of the slices
    loggers, \* the loggers made so far
    handlers, \* the BaseHandlers made so far
    membuf   \* the MemoryBuffer: its bytes and its maxSize

\* The variables of the goroutines.
concVars == <<gs, mu, scenario>>

\* The variables of the pools.
poolVars == <<records, flatAttributesPool, recordPool, recursiveMapPool, acquired>>

\* The variables of maskValue.
maskVars == <<maskIn, maskOut>>

vars == <<heap, stores, last, origin, nops, gs, mu, scenario,
          records, flatAttributesPool, recordPool, recursiveMapPool, acquired,
          maskIn, maskOut,
          expandIn, expandDone, nodes, arrays, loggers, handlers, membuf>>

\* No record allocated, nothing pooled, nothing handed out.
PoolsUnused ==
    /\ records = <<>>
    /\ flatAttributesPool = {}
    /\ recordPool = {}
    /\ recursiveMapPool = {}
    /\ acquired = [stores |-> {}, records |-> {}, attrs |-> {}, written |-> {}]

\* The variables of the other parts of the program, each with a
\* specification of its own.
expandVars == <<expandIn, expandDone>>
loggerVars == <<nodes, arrays, loggers>>
outputVars == <<handlers, membuf>>
auxVars == <<expandVars, loggerVars, outputVars>>

\* ExpandStruct not called.
ExpandUnused ==
    /\ expandIn = <<>>
    /\ expandDone = FALSE

\* No logger made.
LoggersUnused ==
    /\ nodes = <<>>
    /\ arrays = <<>>
    /\ loggers = <<>>

\* No handler and no buffer made.
OutputUnused ==
    /\ handlers = <<>>
    /\ membuf = <<>>

\* None of those parts in use.
AuxUnused ==
    /\ ExpandUnused
    /\ LoggersUnused
    /\ OutputUnused

\* maskValue not called.
MaskUnused ==
    /\ maskIn = <<>>
    /\ maskOut = <<>>

\* ------------------------------------------------------------------ bounds

\* Number of calls made on the stores in one behaviour.
MaxOps == 3

\* Number of stores that exist at once (two to start with, the rest cloned).
MaxStores == 3

\* ------------------------------------------------------------ Go's values

\* The nil interface value.
Nil == "nil"

\* The nil reference: a nil map, a nil *FlatAttributes.
NilRef == 0

\* len(f.smallData): the capacity of the inline array.
SmallCap == 8

\* The strings the calls are built from: "", "a", "b" and "a.b".
sEmpty == <<>>
sA == <<"a">>
sB == <<"b">>
sAB == <<"a", ".", "b">>

\* Strings handed to SetByDotNotation and SetFast: "", "a", "a.b".
DotPaths == {sEmpty, sA, sAB}

\* Segment sequences handed to Set, Get, Has, Delete:
\* [], [""], ["a"], ["a","b"], ["a.b"].
KeyPaths == {<<>>, <<sEmpty>>, <<sA>>, <<sA, sB>>, <<sAB>>}

\* The values stored.
Values == {"v1", "v2"}

\* strings.Join(keyPath, ".")
RECURSIVE Join(_)
Join(keyPath) ==
    IF Len(keyPath) = 0 THEN <<>>
    ELSE IF Len(keyPath) = 1 THEN keyPath[1]
    ELSE keyPath[1] \o <<".">> \o Join(Tail(keyPath))

\* strings.Split(s, "."): a string without "." is one segment, "" included.
RECURSIVE Split(_)
Split(s) ==
    IF \A i \in 1..Len(s) : s[i] # "."
    THEN <<s>>
    ELSE LET i == CHOOSE i \in 1..Len(s) :
                     s[i] = "." /\ \A j \in 1..(i - 1) : s[j] # "."
         IN  <<SubSeq(s, 1, i - 1)>> \o Split(SubSeq(s, i + 1, Len(s)))

\* ------------------------------------------------------------------- maps

\* make(map[string]interface{}): a map with no key.
EmptyMap == [k \in {} |-> Nil]

\* m[k] = v
MapPut(m, k, v) == [x \in (DOMAIN m) \cup {k} |-> IF x = k THEN v ELSE m[x]]

\* delete(m, k)
MapDelete(m, k) == [x \in (DOMAIN m) \ {k} |-> m[x]]

\* ----------------------------------------------------------------- stores

\* The zero value of one smallData element.
ZeroEntry == [key |-> <<>>, value |-> Nil]

\* The zero value FlatAttributes{}: nil map, inline array of zero entries.
ZeroStore ==
    [data |-> NilRef,
     smallData |-> [i \in 1..SmallCap |-> ZeroEntry],
     smallCount |-> 0]

\* The program state the operations act on.
World == [heap |-> heap, stores |-> stores]

\* make(map...) : the world with one more (empty) map; its index is Len+1.
MakeMap(w) == [w EXCEPT !.heap = Append(w.heap, EmptyMap)]

\* NewFlatAttributes(): a new store holding a new empty map.
NewFlatAttributes(w) ==
    [heap |-> Append(w.heap, EmptyMap),
     stores |-> Append(w.stores, [ZeroStore EXCEPT !.data = Len(w.heap) + 1])]

\* var f FlatAttributes: a new zero-value store.
NewZeroValue(w) == [w EXCEPT !.stores = Append(w.stores, ZeroStore)]

\* SetByDotNotation, had it allocated a map on every call.
SetByDotNotationFreshMap(w, f, dotPath, value) ==
    LET w1 == [MakeMap(w) EXCEPT !.stores[f].data = Len(w.heap) + 1]
        d == w1.stores[f].data
    IN  [w1 EXCEPT !.heap[d] = MapPut(w1.heap[d], dotPath, value)]

\* SetByDotNotation: allocate the map when nil, then data[dotPath] = value.
SetByDotNotation(w, f, dotPath, value) ==
    LET w1 == IF w.stores[f].data = NilRef
              THEN [MakeMap(w) EXCEPT !.stores[f].data = Len(w.heap) + 1]
              ELSE w
        d == w1.stores[f].data
    IN  [w1 EXCEPT !.heap[d] = MapPut(w1.heap[d], dotPath, value)]

\* Set without its guard on the empty path.
SetUnguarded(w, f, keyPath, value) ==
    SetByDotNotation(w, f, Join(keyPath), value)

\* Set: nothing for a path of no segment, else SetByDotNotation of the join.
Set(w, f, keyPath, value) ==
    IF Len(keyPath) = 0 THEN w
    ELSE SetByDotNotation(w, f, Join(keyPath), value)

\* A migration loop that stops one entry short.
RECURSIVE MigrateSmallButLast(_, _)
MigrateSmallButLast(s, n) ==
    IF n <= 1 THEN EmptyMap
    ELSE MapPut(MigrateSmallButLast(s, n - 1), s.smallData[n - 1].key,
                s.smallData[n - 1].value)

\* The map SetFast's migration loop builds from the first n inline entries.
RECURSIVE MigrateSmall(_, _)
MigrateSmall(s, n) ==
    IF n = 0 THEN EmptyMap
    ELSE MapPut(MigrateSmall(s, n - 1), s.smallData[n].key, s.smallData[n].value)

\* SetFast: inline array while the map is nil and the array has room,
\* otherwise the map (created from the inline entries when nil).
SetFast(w, f, key, value) ==
    LET s == w.stores[f] IN
    IF s.data = NilRef /\ s.smallCount < SmallCap
    THEN IF \E i \in 1..s.smallCount : s.smallData[i].key = key
         THEN LET i == CHOOSE i \in 1..s.smallCount :
                          /\ s.smallData[i].key = key
                          /\ \A j \in 1..(i - 1) : s.smallData[j].key # key
              IN  [w EXCEPT !.stores[f].smallData[i].value = value]
         ELSE [w EXCEPT !.stores[f].smallData[s.smallCount + 1] =
                             [key |-> key, value |-> value],
                        !.stores[f].smallCount = s.smallCount + 1]
    ELSE LET w1 == IF s.data = NilRef
                   THEN [heap |-> Append(w.heap, MigrateSmall(s, s.smallCount)),
                         stores |-> [w.stores EXCEPT
                                        ![f].data = Len(w.heap) + 1,
                                        ![f].smallCount = 0]]
                   ELSE w
             d == w1.stores[f].data
         IN  [w1 EXCEPT !.heap[d] = MapPut(w1.heap[d], key, value)]

\* GetByDotNotation: the inline array first, then the map: <<value, found>>.
GetByDotNotation(w, f, dotPath) ==
    LET s == w.stores[f] IN
    IF \E i \in 1..s.smallCount : s.smallData[i].key = dotPath
    THEN LET i == CHOOSE i \in 1..s.smallCount :
                     /\ s.smallData[i].key = dotPath
                     /\ \A j \in 1..(i - 1) : s.smallData[j].key # dotPath
         IN  <<s.smallData[i].value, TRUE>>
    ELSE IF s.data = NilRef THEN <<Nil, FALSE>>
    ELSE IF dotPath \in DOMAIN w.heap[s.data]
         THEN <<w.heap[s.data][dotPath], TRUE>>
         ELSE <<Nil, FALSE>>

\* Get: GetByDotNotation of the joined path.
Get(w, f, keyPath) == GetByDotNotation(w, f, Join(keyPath))

\* Has: the found flag of Get.
Has(w, f, keyPath) == Get(w, f, keyPath)[2]

\* HasByDotNotation: the found flag of GetByDotNotation.
HasByDotNotation(w, f, dotPath) == GetByDotNotation(w, f, dotPath)[2]

\* DeleteByDotNotation: removes the key from the map; [w, ret].
DeleteByDotNotation(w, f, dotPath) ==
    LET s == w.stores[f] IN
    IF s.data = NilRef THEN [w |-> w, ret |-> FALSE]
    ELSE IF dotPath \in DOMAIN w.heap[s.data]
         THEN [w |-> [w EXCEPT !.heap[s.data] = MapDelete(w.heap[s.data], dotPath)],
               ret |-> TRUE]
         ELSE [w |-> w, ret |-> FALSE]

\* Delete: DeleteByDotNotation of the joined path.
Delete(w, f, keyPath) == DeleteByDotNotation(w, f, Join(keyPath))

\* Keys: the keys of the map, in the map's order: the bag of keys returned.
Keys(w, f) ==
    LET s == w.stores[f] IN
    IF s.data = NilRef THEN EmptyBag ELSE SetToBag(DOMAIN w.heap[s.data])

\* Size: len(data) + smallCount.
Size(w, f) ==
    LET s == w.stores[f] IN
    IF s.data = NilRef THEN s.smallCount
    ELSE Cardinality(DOMAIN w.heap[s.data]) + s.smallCount

\* IsEmpty: Size() == 0.
IsEmpty(w, f) == Size(w, f) = 0

\* Clone handing its own map to the clone instead of copying the entries.
CloneSharingMap(w, f) ==
    [w EXCEPT !.stores = Append(w.stores,
                                [ZeroStore EXCEPT !.data = w.stores[f].data])]

\* Clone: a NewFlatAttributes() whose map receives the entries of f's map.
Clone(w, f) ==
    LET w1 == NewFlatAttributes(w)
        s == w.stores[f]
    IN  IF s.data # NilRef
        THEN [w1 EXCEPT !.heap[Len(w1.heap)] = w.heap[s.data]]
        ELSE w1

\* The map after Merge's loop: every entry of src written into dst.
MapMerge(dst, src) ==
    [x \in (DOMAIN dst) \cup (DOMAIN src) |->
        IF x \in DOMAIN src THEN src[x] ELSE dst[x]]

\* Merge: nothing for a nil or empty other; else f's map (allocated when
\* nil) receives every entry of other's map.
Merge(w, f, other) ==
    IF other = NilRef THEN w
    ELSE IF IsEmpty(w, other) THEN w
    ELSE LET w1 == IF w.stores[f].data = NilRef
                   THEN [MakeMap(w) EXCEPT !.stores[f].data = Len(w.heap) + 1]
                   ELSE w
             d == w1.stores[f].data
             o == w1.stores[other].data
         IN  IF o = NilRef THEN w1
             ELSE [w1 EXCEPT !.heap[d] = MapMerge(w1.heap[d], w1.heap[o])]

\* The visits Walk makes over the first n inline entries.
RECURSIVE WalkSmall(_, _)
WalkSmall(s, n) ==
    IF n = 0 THEN EmptyBag
    ELSE WalkSmall(s, n - 1)
         (+) SetToBag({<<Split(s.smallData[n].key), s.smallData[n].value>>})

\* Walk: the bag of <<path, value>> the visitor is called with: the inline
\* entries, then the entries of the map.
Walk(w, f) ==
    LET s == w.stores[f] IN
    IF s.data = NilRef THEN WalkSmall(s, s.smallCount)
    ELSE WalkSmall(s, s.smallCount)
         (+) SetToBag({<<Split(k), w.heap[s.data][k]>> : k \in DOMAIN w.heap[s.data]})

\* reset that leaves the map as it is.
resetInlineOnly(w, f) ==
    LET s == w.stores[f]
    IN  [w EXCEPT !.stores[f].smallData =
                      [i \in 1..SmallCap |->
                          IF i <= s.smallCount THEN ZeroEntry ELSE s.smallData[i]],
                  !.stores[f].smallCount = 0]

\* reset: empties the map in place, zeroes the used inline entries.
reset(w, f) ==
    LET s == w.stores[f]
        w1 == IF s.data = NilRef THEN w ELSE [w EXCEPT !.heap[s.data] = EmptyMap]
    IN  [w1 EXCEPT !.stores[f].smallData =
                       [i \in 1..SmallCap |->
                           IF i <= s.smallCount THEN ZeroEntry ELSE s.smallData[i]],
                   !.stores[f].smallCount = 0]

\* A value of a nested mapping: a stored value ...
Leaf(v) == [kind |-> "leaf", value |-> v, m |-> EmptyMap]

\* ... or a map[string]interface{} of such values.
Node(m) == [kind |-> "map", value |-> Nil, m |-> m]

\* One pass of ToNestedMap's outer loop: the node after the value is put at
\* parts.  A missing part, or a part holding a value that is no map, is
\* replaced by a new map on the way; the last part is assigned.
RECURSIVE NestedInsert(_, _, _)
NestedInsert(node, parts, value) ==
    IF Len(parts) = 1
    THEN Node(MapPut(node.m, parts[1], Leaf(value)))
    ELSE LET child == IF parts[1] \in DOMAIN node.m
                         /\ node.m[parts[1]].kind = "map"
                      THEN node.m[parts[1]]
                      ELSE Node(EmptyMap)
         IN  Node(MapPut(node.m, parts[1],
                         NestedInsert(child, Tail(parts), value)))

\* The nested mapping after the first n keys of the iteration order.
RECURSIVE NestedFold(_, _, _)
NestedFold(m, order, n) ==
    IF n = 0 THEN Node(EmptyMap)
    ELSE NestedInsert(NestedFold(m, order, n - 1),
                      Split(order[n]), m[order[n]])

\* The orders in which a range over map m may yield its keys.
IterationOrders(m) ==
    {o \in [1..Cardinality(DOMAIN m) -> DOMAIN m] :
        \A i, j \in DOMAIN o : o[i] = o[j] => i = j}

\* ToNestedMap, the map ranged over in the given order: an empty mapping
\* for a nil map, else every key of the map split and inserted.
ToNestedMap(w, f, order) ==
    LET s == w.stores[f] IN
    IF s.data = NilRef THEN Node(EmptyMap)
    ELSE NestedFold(w.heap[s.data], order, Len(order))

\* The orders ToNestedMap may range over store f's map in.
MapOrders(w, f) ==
    IF w.stores[f].data = NilRef THEN {<<>>}
    ELSE IterationOrders(w.heap[w.stores[f].data])

\* ---------------------------------------------------------------- actions

\* The stores that exist.
StoreIds == 1..Len(stores)

\* The record of the call just made: its name, receiver, arguments, result.
Call(op, f, keyPath, key, value, other, ret) ==
    [op |-> op, f |-> f, keyPath |-> keyPath, key |-> key, value |-> value,
     other |-> other, ret |-> ret]

\* The step to world w, the call recorded.
Step(w, call) ==
    /\ nops < MaxOps
    /\ heap' = w.heap
    /\ stores' = w.stores
    /\ last' = call
    /\ origin' = IF call.op = "Clone" THEN Append(origin, call.f) ELSE origin
    /\ nops' = nops + 1
    /\ UNCHANGED <<concVars, poolVars, maskVars, auxVars>>

\* Two stores exist, each the zero value or a NewFlatAttributes().
Init ==
    /\ \E k1, k2 \in {"zero", "new"} :
          LET w0 == [heap |-> <<>>, stores |-> <<>>]
              w1 == IF k1 = "new" THEN NewFlatAttributes(w0) ELSE NewZeroValue(w0)
              w2 == IF k2 = "new" THEN NewFlatAttributes(w1) ELSE NewZeroValue(w1)
          IN  heap = w2.heap /\ stores = w2.stores
    /\ last = Call("init", NilRef, <<>>, <<>>, Nil, NilRef, Nil)
    /\ origin = <<NilRef, NilRef>>
    /\ nops = 0
    /\ gs = <<>>
    /\ mu = <<>>
    /\ scenario = "sequential"
    /\ PoolsUnused
    /\ MaskUnused
    /\ AuxUnused

DoSet ==
    \E f \in StoreIds, keyPath \in KeyPaths, value \in Values :
        Step(Set(World, f, keyPath, value),
             Call("Set", f, keyPath, <<>>, value, NilRef, Nil))

DoSetByDotNotation ==
    \E f \in StoreIds, dotPath \in DotPaths, value \in Values :
        Step(SetByDotNotation(World, f, dotPath, value),
             Call("SetByDotNotation", f, <<>>, dotPath, value, NilRef, Nil))

DoSetFast ==
    \E f \in StoreIds, key \in DotPaths, value \in Values :
        Step(SetFast(World, f, key, value),
             Call("SetFast", f, <<>>, key, value, NilRef, Nil))

DoDelete ==
    \E f \in StoreIds, keyPath \in KeyPaths :
        LET r == Delete(World, f, keyPath)
        IN  Step(r.w, Call("Delete", f, keyPath, <<>>, Nil, NilRef, r.ret))

\* Merge locks f and read-locks other: the two are different stores here.
DoMerge ==
    \E f \in StoreIds, other \in StoreIds :
        /\ f # other
        /\ Step(Merge(World, f, other),
                Call("Merge", f, <<>>, <<>>, Nil, other, Nil))

DoClone ==
    \E f \in StoreIds :
        /\ Len(stores) < MaxStores
        /\ Step(Clone(World, f),
                Call("Clone", f, <<>>, <<>>, Nil, NilRef, Len(stores) + 1))

DoReset ==
    \E f \in StoreIds :
        Step(reset(World, f), Call("reset", f, <<>>, <<>>, Nil, NilRef, Nil))

Next ==
    \/ DoSet
    \/ DoSetByDotNotation
    \/ DoSetFast
    \/ DoDelete
    \/ DoMerge
    \/ DoClone
    \/ DoReset

Spec == Init /\ [][Next]_vars

\* ------------------------------------------------------------- goroutines
(***************************************************************************)
(* The same operations called from several goroutines.  A call is a        *)
(* sequence of phases, one step each: the lock operations of the code, and *)
(* between them the code they protect, a loop being one step per element.  *)
(***************************************************************************)

\* Goroutines that run at once.
NumGo == 2

\* Calls the goroutines make in all when they choose their calls freely.
MaxCalls == 2

\* Calls each goroutine makes in the SetFast and Get scenario.
RaceCalls == 2

\* Set-then-Get cycles of one goroutine in the stress scenario.
StressCycles == 2

Goroutines == 1..NumGo

\* Phases, had SetByDotNotation (and so Set) taken no lock.
PhasesSetUnlocked(call) ==
    CASE call.op = "Set" ->
            IF Len(call.keyPath) = 0 THEN <<>> ELSE <<"body">>
      [] call.op = "SetByDotNotation" -> <<"body">>
      [] call.op \in {"Delete", "reset"} ->
            <<"lock", "lockwait", "body", "unlock">>
      [] call.op = "SetFast" -> <<"body">>
      [] call.op \in {"Get", "Size"} -> <<"rlock", "body", "runlock">>
      [] call.op \in {"Walk", "Clone"} -> <<"rlock", "body", "loop", "runlock">>
      [] call.op = "Merge" ->
            IF call.other = NilRef THEN <<>>
            ELSE <<"rlock", "body", "runlock",
                   "lock", "lockwait", "rlock", "body", "loop", "runlock", "unlock">>
      [] OTHER -> <<>>

\* The phases of a call, in the order of the code: "lock" and "lockwait"
\* are mu.Lock() (announced, then held), "rlock" is mu.RLock(), "body" the
\* code up to the loop, "loop" one pass of the range loop, "runlock" and
\* "unlock" the deferred mu.RUnlock() and mu.Unlock().  SetFast takes no
\* lock.  Merge starts with other.IsEmpty(), a read of other of its own.
Phases(call) ==
    CASE call.op = "Set" ->
            IF Len(call.keyPath) = 0 THEN <<>>
            ELSE <<"lock", "lockwait", "body", "unlock">>
      [] call.op \in {"SetByDotNotation", "Delete", "reset"} ->
            <<"lock", "lockwait", "body", "unlock">>
      [] call.op = "SetFast" -> <<"body">>
      [] call.op \in {"Get", "Size"} -> <<"rlock", "body", "runlock">>
      [] call.op \in {"Walk", "Clone"} -> <<"rlock", "body", "loop", "runlock">>
      [] call.op = "Merge" ->
            IF call.other = NilRef THEN <<>>
            ELSE <<"rlock", "body", "runlock",
                   "lock", "lockwait", "rlock", "body", "loop", "runlock", "unlock">>
      [] OTHER -> <<>>

\* The phases of Merge that belong to other.IsEmpty().
MergeIsEmptyPhases == {1, 2, 3}

\* The store whose mutex or data phase i of the call works on as a reader:
\* Merge reads other, every other call works on its receiver.
MutexOf(call, i) ==
    IF call.op = "Merge" /\ Phases(call)[i] \in {"rlock", "runlock"}
    THEN call.other
    ELSE call.f

\* A sync.RWMutex nobody holds.
FreeMutex == [writer |-> NilRef, readers |-> {}, pending |-> {}]

\* RLock returns when no writer holds the mutex and none waits for it.
CanRLock(m) == m.writer = NilRef /\ m.pending = {}

\* Lock returns when nobody holds the mutex.
CanLock(m) == m.writer = NilRef /\ m.readers = {}

\* The call of a goroutine that has made none.
NoCall == Call("none", NilRef, <<>>, <<>>, Nil, NilRef, Nil)

\* A goroutine before its first call.  i is the phase it is about to
\* execute (0: between calls), n the number of calls started, keysDone the
\* keys its range loop has yielded, acc what Walk's visitor was called
\* with, ret the call's result, want the value of its last Set, snap the
\* contents its store has had at each instant since the call began.
IdleGoroutine ==
    [call |-> NoCall, i |-> 0, n |-> 0, keysDone |-> {}, acc |-> EmptyBag,
     ret |-> Nil, want |-> Nil, snap |-> {}]

\* The characters of the decimal digits.
DigitChars == <<"0", "1", "2", "3", "4", "5", "6", "7", "8", "9">>

\* The key of goroutine g's cycle c in the stress scenario: "k<g><c>".
StressKey(g, c) == <<"k", DigitChars[g + 1], DigitChars[c + 1]>>

StressKeys == {StressKey(g, c) : g \in Goroutines, c \in 1..StressCycles}

\* The calls a goroutine may choose from in the "locked" scenario: the
\* operations that take the lock of store 1, to mutate it or to read it.
\* Store 2 is the other side of a Merge.
LockedCalls ==
    {Call("Set", 1, <<sA>>, <<>>, "v1", NilRef, Nil),
     Call("Delete", 1, <<sA>>, <<>>, Nil, NilRef, Nil),
     Call("reset", 1, <<>>, <<>>, Nil, NilRef, Nil),
     Call("Get", 1, <<sA>>, <<>>, Nil, NilRef, Nil),
     Call("Size", 1, <<>>, <<>>, Nil, NilRef, Nil),
     Call("Walk", 1, <<>>, <<>>, Nil, NilRef, Nil),
     Call("Clone", 1, <<>>, <<>>, Nil, NilRef, Nil),
     Call("Merge", 1, <<>>, <<>>, Nil, 2, Nil),
     Call("Merge", 2, <<>>, <<>>, Nil, 1, Nil)}

\* The calls a goroutine may choose from in the "merge" scenario: Merge
\* between the two stores in either direction and of store 1 into itself,
\* and a writer and a reader of store 1.
MergeCalls ==
    {Call("Merge", 1, <<>>, <<>>, Nil, 2, Nil),
     Call("Merge", 2, <<>>, <<>>, Nil, 1, Nil),
     Call("Merge", 1, <<>>, <<>>, Nil, 1, Nil),
     Call("Set", 1, <<sB>>, <<>>, "v1", NilRef, Nil),
     Call("Get", 1, <<sA>>, <<>>, Nil, NilRef, Nil)}

\* The number of calls goroutines 1..g have started.
RECURSIVE CallsStarted(_)
CallsStarted(g) == IF g = 0 THEN 0 ELSE gs[g].n + CallsStarted(g - 1)

\* The calls goroutine g may make next, having started n.
\* "locked": any locked call.  "fastrace": goroutine 1 calls SetFast("a", v)
\* and the others Get(["a"]), as TestFlatAttributesConcurrentAccess does.
\* "stress": Set then Get of the goroutine's own key, cycle after cycle.
NextCalls(g, n) ==
    CASE scenario = "locked" ->
            IF CallsStarted(NumGo) < MaxCalls THEN LockedCalls ELSE {}
      [] scenario = "merge" ->
            IF CallsStarted(NumGo) < MaxCalls THEN MergeCalls ELSE {}
      [] scenario = "fastrace" ->
            IF n >= RaceCalls THEN {}
            ELSE IF g = 1
                 THEN {Call("SetFast", 1, <<>>, sA, v, NilRef, Nil) : v \in Values}
                 ELSE {Call("Get", 1, <<sA>>, <<>>, Nil, NilRef, Nil)}
      [] scenario = "stress" ->
            IF n >= 2 * StressCycles THEN {}
            ELSE IF n % 2 = 0
                 THEN {Call("Set", 1, <<StressKey(g, (n \div 2) + 1)>>, <<>>, v, NilRef, Nil) :
                          v \in Values}
                 ELSE {Call("Get", 1, <<StressKey(g, (n \div 2) + 1)>>, <<>>, Nil, NilRef, Nil)}
      [] OTHER -> {}

\* The keys the range loop of the goroutine has still to yield.
Remaining(w, gr) ==
    LET src == IF gr.call.op = "Merge" THEN gr.call.other ELSE gr.call.f
        d == w.stores[src].data
    IN  IF d = NilRef THEN {} ELSE (DOMAIN w.heap[d]) \ gr.keysDone

\* The goroutine moved past phase i: a loop with nothing to range over is
\* passed too, and the last phase ends the call.
Advance(w, gr) ==
    LET ph == Phases(gr.call)
        j == IF gr.i < Len(ph) /\ ph[gr.i + 1] = "loop" /\ Remaining(w, gr) = {}
             THEN gr.i + 2 ELSE gr.i + 1
    IN  [gr EXCEPT !.i = IF j > Len(ph) THEN 0 ELSE j]

\* The store Clone is filling: the one its NewFlatAttributes() returned.
CloneTarget(gr) == gr.ret

\* The code of a "body" phase: what the call does between its lock
\* operations, up to its range loop.  [w, gr]: the world and the locals.
Body(w, gr) ==
    LET c == gr.call IN
    CASE c.op = "Set" ->
            [w |-> Set(w, c.f, c.keyPath, c.value),
             gr |-> [gr EXCEPT !.want = c.value]]
      [] c.op = "SetByDotNotation" ->
            [w |-> SetByDotNotation(w, c.f, c.key, c.value),
             gr |-> [gr EXCEPT !.want = c.value]]
      [] c.op = "SetFast" ->
            [w |-> SetFast(w, c.f, c.key, c.value),
             gr |-> [gr EXCEPT !.want = c.value]]
      [] c.op = "Delete" ->
            [w |-> Delete(w, c.f, c.keyPath).w,
             gr |-> [gr EXCEPT !.ret = Delete(w, c.f, c.keyPath).ret]]
      [] c.op = "reset" -> [w |-> reset(w, c.f), gr |-> gr]
      [] c.op = "Get" -> [w |-> w, gr |-> [gr EXCEPT !.ret = Get(w, c.f, c.keyPath)]]
      [] c.op = "Size" -> [w |-> w, gr |-> [gr EXCEPT !.ret = Size(w, c.f)]]
      [] c.op = "Walk" ->
            [w |-> w,
             gr |-> [gr EXCEPT !.acc = WalkSmall(w.stores[c.f], w.stores[c.f].smallCount)]]
      [] c.op = "Clone" ->
            [w |-> NewFlatAttributes(w),
             gr |-> [gr EXCEPT !.ret = Len(w.stores) + 1]]
      [] c.op = "Merge" ->
            IF gr.i \in MergeIsEmptyPhases
            THEN [w |-> w, gr |-> [gr EXCEPT !.ret = IsEmpty(w, c.other)]]
            ELSE [w |-> IF w.stores[c.f].data = NilRef
                        THEN [MakeMap(w) EXCEPT !.stores[c.f].data = Len(w.heap) + 1]
                        ELSE w,
                  gr |-> gr]

\* One pass of the call's range loop, the map yielding key k.
LoopPass(w, gr, k) ==
    LET c == gr.call
        gr1 == [gr EXCEPT !.keysDone = gr.keysDone \cup {k}]
    IN
    CASE c.op = "Walk" ->
            [w |-> w,
             gr |-> [gr1 EXCEPT !.acc = gr.acc (+)
                        SetToBag({<<Split(k), w.heap[w.stores[c.f].data][k]>>})]]
      [] c.op = "Clone" ->
            [w |-> [w EXCEPT !.heap[w.stores[CloneTarget(gr)].data] =
                        MapPut(@, k, w.heap[w.stores[c.f].data][k])],
             gr |-> gr1]
      [] c.op = "Merge" ->
            [w |-> [w EXCEPT !.heap[w.stores[c.f].data] =
                        MapPut(@, k, w.heap[w.stores[c.other].data][k])],
             gr |-> gr1]

\* The phase goroutine g is about to execute ("idle" between calls).
PhaseOf(gr) == IF gr.i = 0 THEN "idle" ELSE Phases(gr.call)[gr.i]

\* The keys store f holds, in its map or in its inline array.
HeldKeys(w, f) ==
    LET st == w.stores[f]
    IN  (IF st.data = NilRef THEN {} ELSE DOMAIN w.heap[st.data])
            \cup {st.smallData[i].key : i \in 1..st.smallCount}

\* The full contents of store f: its keys, each with the value Get returns.
Contents(w, f) == {<<k, GetByDotNotation(w, f, k)[1]>> : k \in HeldKeys(w, f)}

\* The goroutines gn, each Walk and Clone under way having noted in snap
\* the contents its store has in world w.
Observe(gn, w) ==
    [g \in DOMAIN gn |->
        IF gn[g].i # 0 /\ gn[g].call.op \in {"Walk", "Clone"}
        THEN [gn[g] EXCEPT !.snap = @ \cup {Contents(w, gn[g].call.f)}]
        ELSE gn[g]]

\* A goroutine starts its next call; a call with no phase returns at once.
GoCall(g) ==
    /\ gs[g].i = 0
    /\ \E call \in NextCalls(g, gs[g].n) :
          gs' = [gs EXCEPT ![g] =
                    Advance(World,
                            [gs[g] EXCEPT !.call = call, !.i = 0, !.n = gs[g].n + 1,
                                          !.keysDone = {}, !.acc = EmptyBag,
                                          !.ret = Nil,
                                          !.snap = IF call.op \in {"Walk", "Clone"}
                                                   THEN {Contents(World, call.f)}
                                                   ELSE {}])]
    /\ UNCHANGED <<heap, stores, last, origin, nops, mu, scenario, poolVars, maskVars, auxVars>>

\* A goroutine executes a lock phase: it announces Lock, or returns from
\* Lock or RLock when the mutex allows it.
GoLock(g) ==
    LET gr == gs[g]
        ph == PhaseOf(gr)
        f == IF ph = "idle" THEN NilRef ELSE MutexOf(gr.call, gr.i)
    IN  /\ ph \in {"lock", "lockwait", "rlock"}
        /\ ph = "lockwait" => CanLock(mu[f])
        /\ ph = "rlock" => CanRLock(mu[f])
        /\ mu' = [mu EXCEPT ![f] =
                     IF ph = "lock" THEN [@ EXCEPT !.pending = @ \cup {g}]
                     ELSE IF ph = "lockwait"
                          THEN [@ EXCEPT !.writer = g, !.pending = @ \ {g}]
                          ELSE [@ EXCEPT !.readers = @ \cup {g}]]
        /\ gs' = [gs EXCEPT ![g] = Advance(World, gr)]
        /\ UNCHANGED <<heap, stores, last, origin, nops, scenario, poolVars, maskVars, auxVars>>

\* A goroutine executes the code of a "body" phase or one pass of its loop.
GoBody(g) ==
    LET gr == gs[g]
        ph == PhaseOf(gr)
    IN  /\ ph \in {"body", "loop"}
        /\ \E k \in IF ph = "loop" THEN Remaining(World, gr) ELSE {Nil} :
              LET r == IF ph = "loop" THEN LoopPass(World, gr, k) ELSE Body(World, gr)
                  stay == ph = "loop" /\ Remaining(r.w, r.gr) # {}
              IN  /\ heap' = r.w.heap
                  /\ stores' = r.w.stores
                  /\ mu' = IF Len(r.w.stores) > Len(mu) THEN Append(mu, FreeMutex) ELSE mu
                  /\ gs' = Observe([gs EXCEPT ![g] =
                                        IF stay THEN r.gr ELSE Advance(r.w, r.gr)],
                                    r.w)
        /\ UNCHANGED <<last, origin, nops, scenario, poolVars, maskVars, auxVars>>

\* A goroutine executes an unlock phase.  Merge returns after its
\* other.IsEmpty() when that reported true.
GoUnlock(g) ==
    LET gr == gs[g]
        ph == PhaseOf(gr)
        f == IF ph = "idle" THEN NilRef ELSE MutexOf(gr.call, gr.i)
    IN  /\ ph \in {"runlock", "unlock"}
        /\ mu' = [mu EXCEPT ![f] =
                     IF ph = "unlock" THEN [@ EXCEPT !.writer = NilRef]
                     ELSE [@ EXCEPT !.readers = @ \ {g}]]
        /\ gs' = [gs EXCEPT ![g] =
                     IF gr.call.op = "Merge" /\ gr.i \in MergeIsEmptyPhases /\ gr.ret = TRUE
                     THEN [gr EXCEPT !.i = 0]
                     ELSE Advance(World, gr)]
        /\ UNCHANGED <<heap, stores, last, origin, nops, scenario, poolVars, maskVars, auxVars>>

NextConc ==
    \E g \in Goroutines :
        \/ GoCall(g)
        \/ GoLock(g)
        \/ GoBody(g)
        \/ GoUnlock(g)

\* The goroutines and mutexes at the start, over the stores of world w.
InitConc(w, sc) ==
    /\ heap = w.heap
    /\ stores = w.stores
    /\ last = Call("init", NilRef, <<>>, <<>>, Nil, NilRef, Nil)
    /\ origin = [f \in 1..Len(w.stores) |-> NilRef]
    /\ nops = 0
    /\ gs = [g \in Goroutines |-> IdleGoroutine]
    /\ mu = [f \in 1..Len(w.stores) |-> FreeMutex]
    /\ scenario = sc
    /\ PoolsUnused
    /\ MaskUnused
    /\ AuxUnused

\* A world with no store.
NoWorld == [heap |-> <<>>, stores |-> <<>>]

\* "locked": store 1 is a NewFlatAttributes() or a zero value that its owner
\* filled with SetFast before sharing it; store 2 holds "a" and "a.b".
InitLocked ==
    \E k1 \in {"new", "inline"} :
        LET w1 == IF k1 = "new" THEN NewFlatAttributes(NoWorld)
                  ELSE SetFast(NewZeroValue(NoWorld), 1, sA, "v1")
            w2 == Set(Set(NewFlatAttributes(w1), 2, <<sA>>, "v2"), 2, <<sA, sB>>, "v2")
        IN  InitConc(w2, "locked")

SpecLocked == InitLocked /\ [][NextConc]_vars

\* "merge": two stores, each holding one entry.
InitMerge ==
    InitConc(Set(Set(NewFlatAttributes(NewFlatAttributes(NoWorld)), 1, <<sA>>, "v1"),
                 2, <<sA>>, "v2"),
             "merge")

\* The scheduler runs every goroutine that can take a step: one that is
\* inside a call and not waiting for a lock goes on, and one waiting for
\* a lock that stays available gets it.  No goroutine has to start a call.
FairConc ==
    \A g \in Goroutines :
        /\ WF_vars(GoLock(g))
        /\ WF_vars(GoBody(g))
        /\ WF_vars(GoUnlock(g))

SpecMergeFair == InitMerge /\ [][NextConc]_vars /\ FairConc

\* "fastrace": one NewFlatAttributes(), as in the test.
InitFastRace == InitConc(NewFlatAttributes(NoWorld), "fastrace")

SpecFastRace == InitFastRace /\ [][NextConc]_vars

\* "stress": one empty shared store, a NewFlatAttributes() or a zero value.
InitStress ==
    \E k1 \in {"new", "zero"} :
        InitConc(IF k1 = "new" THEN NewFlatAttributes(NoWorld) ELSE NewZeroValue(NoWorld),
                 "stress")

SpecStress == InitStress /\ [][NextConc]_vars

\* ------------------------------------------------------------------ pools
(***************************************************************************)
(* The FlatAttributes pool and the Record pool, used by one borrower after *)
(* another.  A sync.Pool's Get returns any of the values Put into it, or   *)
(* the value of New.                                                       *)
(***************************************************************************)

\* Operations on the pools in one behaviour.
MaxPoolOps == 5

\* Records allocated in one behaviour.
MaxRecords == 2

\* Levels and messages of the records.
Levels == {"LevelInfo", "LevelError"}

Messages == {"m1", "m2"}

\* The strings a borrower stores in OutputID.
OutputIDs == {<<"i", "d">>}

\* The stores, the records and the two pools.
PoolWorld ==
    [heap |-> heap, stores |-> stores, records |-> records,
     flatAttributesPool |-> flatAttributesPool, recordPool |-> recordPool]

\* pw with its stores and heap replaced by those of w.
WithStores(pw, w) == [pw EXCEPT !.heap = w.heap, !.stores = w.stores]

\* The stores and heap of pw.
StoresOf(pw) == [heap |-> pw.heap, stores |-> pw.stores]

\* reset, on the stores of pw.
PoolReset(pw, f) == WithStores(pw, reset(StoresOf(pw), f))

\* flatAttributesPool.Get(): the pooled store pick, or with pick nil the
\* NewFlatAttributes() of New.  [pw, ret].
FlatPoolGet(pw, pick) ==
    IF pick = NilRef
    THEN [pw |-> WithStores(pw, NewFlatAttributes(StoresOf(pw))),
          ret |-> Len(pw.stores) + 1]
    ELSE [pw |-> [pw EXCEPT !.flatAttributesPool = @ \ {pick}], ret |-> pick]

\* NewFlatAttributesFromPool: Get, then reset.
NewFlatAttributesFromPool(pw, pick) ==
    LET g == FlatPoolGet(pw, pick)
    IN  [pw |-> PoolReset(g.pw, g.ret), ret |-> g.ret]

\* A Record as New of recordPool builds it: only Attributes is set.
ZeroRecord(attrs) ==
    [Level |-> Nil, Message |-> Nil, Attributes |-> attrs, Context |-> Nil,
     PC |-> 0, OutputID |-> <<>>]

\* recordPool.Get(): the pooled record pick, or with pick nil the
\* &Record{Attributes: NewFlatAttributesFromPool()} of New, its store being
\* pickStore.
RecordPoolGet(pw, pick, pickStore) ==
    IF pick = NilRef
    THEN LET a == NewFlatAttributesFromPool(pw, pickStore)
         IN  [pw |-> [a.pw EXCEPT !.records = Append(@, ZeroRecord(a.ret))],
              ret |-> Len(pw.records) + 1]
    ELSE [pw |-> [pw EXCEPT !.recordPool = @ \ {pick}], ret |-> pick]

\* NewRecordFromPool: Get, set Level and Message (and Time), clear Context
\* and PC, reset the Attributes.
NewRecordFromPool(pw, level, msg, pick, pickStore) ==
    LET g == RecordPoolGet(pw, pick, pickStore)
        r == g.ret
        pw1 == [g.pw EXCEPT !.records[r].Level = level,
                            !.records[r].Message = msg,
                            !.records[r].Context = Nil,
                            !.records[r].PC = 0]
    IN  [pw |-> PoolReset(pw1, pw1.records[r].Attributes), ret |-> r]

\* ReturnFlatAttributesToPool: nothing for nil, else reset and Put.
ReturnFlatAttributesToPool(pw, attrs) ==
    IF attrs = NilRef THEN pw
    ELSE [PoolReset(pw, attrs) EXCEPT !.flatAttributesPool = @ \cup {attrs}]

\* ReturnRecordToPool: nothing for nil, else Put; the Attributes stay with
\* the record.
ReturnRecordToPool(pw, record) ==
    IF record = NilRef THEN pw
    ELSE [pw EXCEPT !.recordPool = @ \cup {record}]

\* The step of a pool operation: pw is the result, call the call made, acq
\* what is handed out after it.
PoolStep(pw, call, acq) ==
    /\ nops < MaxPoolOps
    /\ Len(pw.stores) <= MaxStores
    /\ Len(pw.records) <= MaxRecords
    /\ heap' = pw.heap
    /\ stores' = pw.stores
    /\ records' = pw.records
    /\ flatAttributesPool' = pw.flatAttributesPool
    /\ recordPool' = pw.recordPool
    /\ acquired' = acq
    /\ last' = call
    /\ nops' = nops + 1
    /\ UNCHANGED <<recursiveMapPool, origin, concVars, maskVars, auxVars>>

\* The stores a borrower holds: acquired as such, or as the Attributes of
\* an acquired record.
BorrowedStores == acquired.stores \cup acquired.attrs

DoNewFlatAttributesFromPool ==
    \E pick \in flatAttributesPool \cup {NilRef} :
        LET r == NewFlatAttributesFromPool(PoolWorld, pick)
        IN  PoolStep(r.pw,
                     Call("NewFlatAttributesFromPool", r.ret, <<>>, <<>>, Nil, NilRef, r.ret),
                     [acquired EXCEPT !.stores = @ \cup {r.ret}])

DoNewRecordFromPool ==
    \E level \in Levels, msg \in Messages :
    \E pick \in recordPool \cup {NilRef}, pickStore \in flatAttributesPool \cup {NilRef} :
        LET r == NewRecordFromPool(PoolWorld, level, msg, pick, pickStore)
            a == r.pw.records[r.ret].Attributes
        IN  /\ pick # NilRef => pickStore = NilRef
            /\ PoolStep(r.pw,
                        Call("NewRecordFromPool", a, <<>>, msg, level, NilRef, r.ret),
                        [acquired EXCEPT !.records = @ \cup {r.ret},
                                         !.attrs = @ \cup {a}])

\* A borrower returns a store it holds and has not returned yet, or nil.
DoReturnFlatAttributesToPool ==
    \E attrs \in BorrowedStores \cup {NilRef} :
        PoolStep(ReturnFlatAttributesToPool(PoolWorld, attrs),
                 Call("ReturnFlatAttributesToPool", attrs, <<>>, <<>>, Nil, NilRef, Nil),
                 [acquired EXCEPT !.stores = @ \ {attrs}, !.attrs = @ \ {attrs}])

\* A borrower returns a record it holds, or nil; with the record it gives
\* up the record's Attributes.
DoReturnRecordToPool ==
    \E record \in acquired.records \cup {NilRef} :
        PoolStep(ReturnRecordToPool(PoolWorld, record),
                 Call("ReturnRecordToPool", NilRef, <<>>, <<>>, Nil, NilRef, record),
                 IF record = NilRef THEN acquired
                 ELSE [acquired EXCEPT !.records = @ \ {record},
                                       !.attrs = @ \ {records[record].Attributes}])

\* A borrower writes to a store it holds.
DoBorrowerWrite ==
    \E f \in BorrowedStores, how \in {"Set", "SetByDotNotation", "SetFast"} :
        LET w == CASE how = "Set" -> Set(World, f, <<sA, sB>>, "v1")
                   [] how = "SetByDotNotation" -> SetByDotNotation(World, f, sA, "v2")
                   [] how = "SetFast" -> SetFast(World, f, sA, "v1")
        IN  PoolStep(WithStores(PoolWorld, w),
                     Call(how, f, <<>>, <<>>, Nil, NilRef, Nil),
                     [acquired EXCEPT !.written = @ \cup {f}])

\* A borrower assigns the fields of a record it holds.
DoBorrowerAssign ==
    \E r \in acquired.records, id \in OutputIDs :
        PoolStep([PoolWorld EXCEPT !.records[r].OutputID = id,
                                   !.records[r].Context = "ctx",
                                   !.records[r].PC = 1],
                 Call("assign", NilRef, <<>>, <<>>, Nil, NilRef, r),
                 acquired)

NextPool ==
    \/ DoNewFlatAttributesFromPool
    \/ DoNewRecordFromPool
    \/ DoReturnFlatAttributesToPool
    \/ DoReturnRecordToPool
    \/ DoBorrowerWrite
    \/ DoBorrowerAssign

\* Empty pools, nothing allocated.
InitPool ==
    /\ heap = <<>>
    /\ stores = <<>>
    /\ last = Call("init", NilRef, <<>>, <<>>, Nil, NilRef, Nil)
    /\ origin = <<>>
    /\ nops = 0
    /\ gs = <<>>
    /\ mu = <<>>
    /\ scenario = "pools"
    /\ PoolsUnused
    /\ MaskUnused
    /\ AuxUnused

SpecPool == InitPool /\ [][NextPool]_vars

\* -------------------------------------------------------------- maskValue
(***************************************************************************)
(* maskValue.  A Go string is a sequence of bytes: len counts bytes and    *)
(* s[:n] cuts at a byte.  A character outside ASCII is encoded in several  *)
(* bytes, here "é" in the two bytes C3 A9.                                 *)
(***************************************************************************)

\* Characters of the longest display string.
MaxMaskLen == 2

\* The characters display strings are made of.
MaskChars == {"s", "é"}

\* What an ill-formed byte sequence decodes to (U+FFFD).
Replacement == "\\uFFFD"

\* The UTF-8 encoding of one character.
EncodeChar(c) == IF c = "é" THEN <<"\\xC3", "\\xA9">> ELSE <<c>>

\* The bytes of a string of characters.
RECURSIVE Encode(_)
Encode(cs) == IF cs = <<>> THEN <<>> ELSE EncodeChar(Head(cs)) \o Encode(Tail(cs))

\* The characters a reader of UTF-8 finds in a sequence of bytes.
RECURSIVE Decode(_)
Decode(b) ==
    IF b = <<>> THEN <<>>
    ELSE IF Len(b) >= 2 /\ SubSeq(b, 1, 2) = EncodeChar("é")
         THEN <<"é">> \o Decode(SubSeq(b, 3, Len(b)))
         ELSE IF b[1] \in {"\\xC3", "\\xA9"}
              THEN <<Replacement>> \o Decode(Tail(b))
              ELSE <<b[1]>> \o Decode(Tail(b))

\* A string value and an int value.
StringValue(b) == [kind |-> "string", b |-> b, n |-> 0]

IntValue(n) == [kind |-> "int", b |-> <<>>, n |-> n]

\* The decimal digits of a natural number.
RECURSIVE Itoa(_)
Itoa(n) ==
    IF n < 10 THEN <<DigitChars[n + 1]>>
    ELSE Itoa(n \div 10) \o <<DigitChars[(n % 10) + 1]>>

\* fmt.Sprintf("%v", value): the bytes of a string, the digits of an int,
\* "<nil>" for a nil pointer and the address for another (one address
\* stands for all).
Sprintf(value) ==
    CASE value.kind = "string" -> value.b
      [] value.kind = "int" -> Itoa(value.n)
      [] value.kind = "ptr" -> IF value.elem = <<>> THEN <<"<", "n", "i", "l", ">">>
                               ELSE <<"0", "x", "c", "0">>

\* strings.Repeat("*", n)
RECURSIVE Repeat(_, _)
Repeat(c, n) == IF n <= 0 THEN <<>> ELSE <<c>> \o Repeat(c, n - 1)

\* The characters \d matches.
Digits == {DigitChars[i] : i \in DOMAIN DigitChars}

\* The value of a digit.
DigitValue(c) == (CHOOSE i \in DOMAIN DigitChars : DigitChars[i] = c) - 1

\* The string "mask" and the brackets of "mask[n]".
sMask == <<"m", "a", "s", "k">>

sOpen == <<"[">>

sClose == <<"]">>

\* regexp ^mask\[(\d+)\]$ on maskTag: the submatch, or <<>> when the tag
\* does not match (a match has one digit at least).
FindStringSubmatch(maskTag) ==
    LET n == Len(maskTag)
        pre == Len(sMask) + Len(sOpen)
    IN  IF /\ n >= pre + 1 + Len(sClose)
           /\ SubSeq(maskTag, 1, pre) = sMask \o sOpen
           /\ SubSeq(maskTag, n, n) = sClose
           /\ \A i \in (pre + 1)..(n - 1) : maskTag[i] \in Digits
        THEN SubSeq(maskTag, pre + 1, n - 1)
        ELSE <<>>

\* The digits of the greatest int, 1<<63 - 1.
MaxInt64 ==
    <<"9", "2", "2", "3", "3", "7", "2", "0", "3", "6",
      "8", "5", "4", "7", "7", "5", "8", "0", "7">>

\* A digit string without its leading zeros.
RECURSIVE StripZeros(_)
StripZeros(d) ==
    IF Len(d) > 1 /\ d[1] = "0" THEN StripZeros(Tail(d)) ELSE d

\* a <= b for digit strings of one length.
RECURSIVE DigitsLE(_, _)
DigitsLE(a, b) ==
    IF a = <<>> THEN TRUE
    ELSE IF DigitValue(a[1]) # DigitValue(b[1])
         THEN DigitValue(a[1]) < DigitValue(b[1])
         ELSE DigitsLE(Tail(a), Tail(b))

\* strconv.Atoi reports an error: the number does not fit an int.
AtoiFails(d) ==
    LET t == StripZeros(d)
    IN  \/ Len(t) > Len(MaxInt64)
        \/ Len(t) = Len(MaxInt64) /\ ~DigitsLE(t, MaxInt64)

\* The number the digits d stand for, or cap when it is greater than cap.
RECURSIVE AtoiUpTo(_, _)
AtoiUpTo(d, cap) ==
    IF d = <<>> THEN 0
    ELSE LET hi == AtoiUpTo(SubSeq(d, 1, Len(d) - 1), cap)
             v == 10 * hi + DigitValue(d[Len(d)])
         IN  IF hi >= cap \/ v >= cap THEN cap ELSE v

\* maskValue, had it masked the whole string under a tag it does not know.
maskValueMaskingUnknown(value, maskTag) ==
    LET strValue == Sprintf(value)
        matches == FindStringSubmatch(maskTag)
        unmaskCount == AtoiUpTo(matches, Len(strValue))
    IN  IF maskTag = <<>> THEN value
        ELSE IF strValue = <<>> THEN value
        ELSE IF matches # <<>>
             THEN IF AtoiFails(matches)
                  THEN StringValue(Repeat("*", Len(strValue)))
                  ELSE IF unmaskCount >= Len(strValue)
                       THEN value
                       ELSE StringValue(SubSeq(strValue, 1, unmaskCount)
                                \o Repeat("*", Len(strValue) - unmaskCount))
             ELSE StringValue(Repeat("*", Len(strValue)))

\* maskValue.  unmaskCount is only compared with len(strValue) and used
\* below it, so it is computed up to that length.
maskValue(value, maskTag) ==
    LET strValue == Sprintf(value)
        matches == FindStringSubmatch(maskTag)
        unmaskCount == AtoiUpTo(matches, Len(strValue))
    IN  IF maskTag = <<>> THEN value
        ELSE IF strValue = <<>> THEN value
        ELSE IF matches # <<>>
             THEN IF AtoiFails(matches)
                  THEN StringValue(Repeat("*", Len(strValue)))
                  ELSE IF unmaskCount >= Len(strValue)
                       THEN value
                       ELSE StringValue(SubSeq(strValue, 1, unmaskCount)
                                \o Repeat("*", Len(strValue) - unmaskCount))
             ELSE IF maskTag = sMask
                  THEN StringValue(Repeat("*", Len(strValue)))
                  ELSE value

\* The strings of at most n characters.
RECURSIVE CharStrings(_)
CharStrings(n) ==
    IF n = 0 THEN {<<>>}
    ELSE CharStrings(n - 1)
            \cup {<<c>> \o cs : c \in MaskChars, cs \in {x \in CharStrings(n - 1) : Len(x) = n - 1}}

\* The values masked: strings and ints.
MaskValues ==
    {StringValue(Encode(cs)) : cs \in CharStrings(MaxMaskLen)}
        \cup {IntValue(n) : n \in {7, 45}}

\* The counts written in the tags: small ones, one with a leading zero, the
\* greatest int, the number after it, and one of twenty digits.
MaskCounts ==
    {Itoa(n) : n \in 0..(MaxMaskLen + 2)}
        \cup {<<"0", "1">>, MaxInt64,
              SubSeq(MaxInt64, 1, Len(MaxInt64) - 1) \o <<"8">>,
              MaxInt64 \o <<"0">>}

\* The tags: none, "mask", "mask[n]" and tags that are neither.
MaskTags ==
    {<<>>, sMask}
        \cup {sMask \o sOpen \o d \o sClose : d \in MaskCounts}
        \cup {sMask \o sOpen \o sClose, sMask \o sOpen \o <<"1">>,
              sMask \o sOpen \o <<"-", "1">> \o sClose, <<"M">> \o Tail(sMask),
              sMask \o <<"e", "d">>}

\* maskValue is called on the arguments chosen at the start.
DoMaskValue ==
    /\ maskOut = <<>>
    /\ maskOut' = <<maskValue(maskIn[1].value, maskIn[1].maskTag)>>
    /\ UNCHANGED <<heap, stores, last, origin, nops, concVars, poolVars, maskIn, auxVars>>

NextMask == DoMaskValue

InitMask ==
    /\ heap = <<>>
    /\ stores = <<>>
    /\ last = Call("init", NilRef, <<>>, <<>>, Nil, NilRef, Nil)
    /\ origin = <<>>
    /\ nops = 0
    /\ gs = <<>>
    /\ mu = <<>>
    /\ scenario = "maskValue"
    /\ PoolsUnused
    /\ \E value \in MaskValues, maskTag \in MaskTags :
          maskIn = <<[value |-> value, maskTag |-> maskTag]>>
    /\ maskOut = <<>>
    /\ AuxUnused

SpecMask == InitMask /\ [][NextMask]_vars

\* ----------------------------------------------------------- ExpandStruct
(***************************************************************************)
(* ExpandStruct.  The values reflection tells apart: strings, ints,        *)
(* pointers (nil or to a value), structs (a list of fields, each with its  *)
(* name, its sawmill tag and its value) and the nil interface.             *)
(***************************************************************************)

\* Structs nested inside the struct expanded.
MaxDepth == 1

\* A pointer: elem is <<>> when it is nil, <<v>> when it points to v.
PtrValue(elem) == [kind |-> "ptr", elem |-> elem]

\* A struct value.
StructValue(fields) == [kind |-> "struct", fields |-> fields]

\* The nil interface.
NilValue == [kind |-> "nil"]

\* A field of a struct.
Field(name, tag, value) == [Name |-> name, Tag |-> tag, value |-> value]

\* The upper-case letters of the field names and their lower-case forms.
UpperChars == <<"A", "D", "E", "I", "M", "N">>

LowerChars == <<"a", "d", "e", "i", "m", "n">>

\* strings.ToLower
ToLower(str) ==
    [i \in DOMAIN str |->
        IF \E j \in DOMAIN UpperChars : UpperChars[j] = str[i]
        THEN LowerChars[CHOOSE j \in DOMAIN UpperChars : UpperChars[j] = str[i]]
        ELSE str[i]]

\* field.CanInterface(): the field is exported, its name starts with an
\* upper-case letter.
CanInterface(fld) == \E j \in DOMAIN UpperChars : UpperChars[j] = fld.Name[1]

\* strings.HasPrefix
HasPrefix(str, pre) == Len(str) >= Len(pre) /\ SubSeq(str, 1, Len(pre)) = pre

\* The key of a field: the prefix and "." before the lower-cased name, the
\* name alone under an empty prefix.
FieldKey(prefix, fld) ==
    IF prefix # <<>> THEN prefix \o <<".">> \o ToLower(fld.Name) ELSE ToLower(fld.Name)

\* The field is a struct or a non-nil pointer to one: it is recursed into.
IsNested(v) ==
    \/ v.kind = "struct"
    \/ v.kind = "ptr" /\ v.elem # <<>> /\ v.elem[1].kind = "struct"

RECURSIVE ExpandStruct(_, _, _, _)
RECURSIVE ExpandFields(_, _, _, _, _)

\* One pass of ExpandStruct's loop, for the field fld.
ExpandField(w, f, prefix, fld) ==
    IF ~CanInterface(fld) THEN w
    ELSE IF IsNested(fld.value)
         THEN ExpandStruct(w, f, FieldKey(prefix, fld), fld.value)
         ELSE SetByDotNotation(w, f, FieldKey(prefix, fld),
                               IF HasPrefix(fld.Tag, sMask)
                               THEN maskValue(fld.value, fld.Tag)
                               ELSE fld.value)

\* The first n passes of ExpandStruct's loop.
ExpandFields(w, f, prefix, fields, n) ==
    IF n = 0 THEN w
    ELSE ExpandField(ExpandFields(w, f, prefix, fields, n - 1), f, prefix, fields[n])

\* ExpandStruct: nothing for nil; a value that is no struct (after one
\* dereference) is stored as it was given; a struct is expanded field by
\* field.
ExpandStruct(w, f, prefix, value) ==
    IF value.kind = "nil" THEN w
    ELSE LET val == IF value.kind = "ptr" /\ value.elem # <<>> THEN value.elem[1] ELSE value
         IN  IF val.kind # "struct"
             THEN SetByDotNotation(w, f, prefix, value)
             ELSE ExpandFields(w, f, prefix, val.fields, Len(val.fields))

\* Field names: two that differ in case only, an unexported one, another.
sName == <<"N", "a", "m", "e">>

FieldNames == {sName, <<"N", "A", "M", "E">>, <<"n", "a", "m", "e">>, <<"I", "d">>}

\* The sawmill tags of the fields.
FieldTags ==
    {<<>>, sMask, sMask \o sOpen \o <<"1">> \o sClose, sMask \o sOpen \o <<"5">> \o sClose,
     sMask \o <<"e", "d">>, sMask \o sOpen \o <<"x">> \o sClose,
     sMask \o sOpen \o <<"-", "1">> \o sClose,
     <<"i", "n", "v", "a", "l", "i", "d", "_", "t", "a", "g">>}

\* The values of fields that are no structs.
LeafValues ==
    {StringValue(<<"s", "s">>), StringValue(<<>>), IntValue(45),
     PtrValue(<<>>), PtrValue(<<StringValue(<<"s", "s">>)>>)}

\* The structs nested at most d deep, each of one field.
RECURSIVE NestedStructs(_)
NestedStructs(d) ==
    IF d = 0 THEN {}
    ELSE {StructValue(<<Field(sName, <<>>, v)>>) :
             v \in {StringValue(<<"s", "s">>)} \cup NestedStructs(d - 1)}

\* The structs expanded: a first field of any name, tag and value, nested
\* structs and pointers to them included, and at most one more field of
\* another name.
ExpandedStructs ==
    LET nested == NestedStructs(MaxDepth)
        first == {Field(nm, tag, v) :
                     nm \in FieldNames, tag \in FieldTags,
                     v \in LeafValues \cup nested \cup {PtrValue(<<st>>) : st \in nested}}
        second == {Field(nm, <<>>, StringValue(<<"t">>)) : nm \in FieldNames}
    IN  {StructValue(<<a>>) : a \in first}
            \cup {StructValue(<<p[1], p[2]>>) :
                     p \in {q \in first \X second : q[1].Name # q[2].Name}}

\* The values ExpandStruct is called with: structs, pointers to structs, a
\* value that is no struct, a nil pointer and nil.
ExpandedValues ==
    ExpandedStructs \cup {PtrValue(<<st>>) : st \in ExpandedStructs}
        \cup {IntValue(45), PtrValue(<<>>), NilValue}

\* The prefixes ExpandStruct is called with.
Prefixes == {<<>>, <<"u">>}

\* The store expanded into.
ExpandStore == Len(stores)

\* ExpandStruct is called on the arguments chosen at the start.
DoExpandStruct ==
    /\ ~expandDone
    /\ LET w == ExpandStruct(World, ExpandStore, expandIn[1].prefix, expandIn[1].value)
       IN  /\ heap' = w.heap
           /\ stores' = w.stores
    /\ expandDone' = TRUE
    /\ UNCHANGED <<last, origin, nops, concVars, poolVars, maskVars, expandIn, loggerVars, outputVars>>

NextExpand == DoExpandStruct

\* One store: a NewFlatAttributes(), a zero value, or a zero value in which
\* SetFast has put "u.name"; and the arguments of the call.
InitExpand ==
    /\ \E k1 \in {"new", "zero", "inline"} :
          LET w == CASE k1 = "new" -> NewFlatAttributes(NoWorld)
                     [] k1 = "zero" -> NewZeroValue(NoWorld)
                     [] k1 = "inline" ->
                          SetFast(NewZeroValue(NoWorld), 1,
                                  <<"u", ".">> \o ToLower(sName), StringValue(<<"o">>))
          IN  heap = w.heap /\ stores = w.stores
    /\ last = Call("init", NilRef, <<>>, <<>>, Nil, NilRef, Nil)
    /\ origin = <<NilRef>>
    /\ nops = 0
    /\ gs = <<>>
    /\ mu = <<>>
    /\ scenario = "ExpandStruct"
    /\ PoolsUnused
    /\ MaskUnused
    /\ \E prefix \in Prefixes, value \in ExpandedValues :
          expandIn = <<[prefix |-> prefix, value |-> value]>>
    /\ expandDone = FALSE
    /\ LoggersUnused
    /\ OutputUnused

SpecExpand == InitExpand /\ [][NextExpand]_vars

\* ---------------------------------------------------------------- loggers
\*
\* src/logger.go and the RecursiveMap of src/builder.go.  A RecursiveMap is
\* a tree of nodes reached through pointers: the nodes live in `nodes`, a
\* *RecursiveMap is the index of its node.  A slice is a window
\* [arr, len, cap] on a backing array of `arrays`; two slices that share an
\* array see each other's writes.  A logger is one record of `loggers`.

\* The number of loggers derived from the first one.
MaxDerived == 3

\* The state the loggers' operators work on.
LoggerWorld == [nodes |-> nodes, arrays |-> arrays, loggers |-> loggers]

\* NewRecursiveMap(): a node with no child and no value, at index
\* Len(nodes) of the result.
NewRecursiveMap(lw) ==
    [lw EXCEPT !.nodes = Append(lw.nodes, [children |-> EmptyMap,
                                           value |-> Nil,
                                           hasValue |-> FALSE])]

\* rm.Set(keyPath, value): the value at the node the path leads to, the
\* missing nodes of the path made on the way.
RECURSIVE RecursiveMapSet(_, _, _, _)
RecursiveMapSet(lw, rm, keyPath, value) ==
    IF Len(keyPath) = 0
    THEN [lw EXCEPT !.nodes[rm].value = value, !.nodes[rm].hasValue = TRUE]
    ELSE LET key == keyPath[1]
             w1 == IF key \in DOMAIN lw.nodes[rm].children
                   THEN lw
                   ELSE LET w0 == NewRecursiveMap(lw)
                        IN  [w0 EXCEPT !.nodes[rm].children =
                                           MapPut(@, key, Len(w0.nodes))]
         IN  RecursiveMapSet(w1, w1.nodes[rm].children[key], Tail(keyPath), value)

\* rm.SetByDotNotation(dotPath, value)
RecursiveMapSetByDotNotation(lw, rm, dotPath, value) ==
    RecursiveMapSet(lw, rm, Split(dotPath), value)

\* A Clone that copies the root node only and points at the receiver's
\* children.
RecursiveMapCloneRootOnly(lw, rm) ==
    LET w0 == NewRecursiveMap(lw)
        clone == Len(w0.nodes)
    IN  [w |-> [w0 EXCEPT !.nodes[clone] = lw.nodes[rm]], ref |-> clone]

\* rm.Clone(): a new node with the receiver's value and a clone of each
\* child; the result is the state and the new node's index.  The children
\* are cloned in some order, which only decides their indices.
RECURSIVE RecursiveMapClone(_, _), CloneChildren(_, _, _, _)
RecursiveMapClone(lw, rm) ==
    LET w0 == NewRecursiveMap(lw)
        clone == Len(w0.nodes)
        w1 == [w0 EXCEPT !.nodes[clone].hasValue = lw.nodes[rm].hasValue,
                         !.nodes[clone].value = lw.nodes[rm].value]
    IN  [w |-> CloneChildren(w1, rm, clone, DOMAIN lw.nodes[rm].children),
         ref |-> clone]

\* The loop of Clone over the children still to copy.
CloneChildren(lw, rm, clone, keys) ==
    IF keys = {} THEN lw
    ELSE LET key == CHOOSE k \in keys : TRUE
             c == RecursiveMapClone(lw, lw.nodes[rm].children[key])
         IN  CloneChildren([c.w EXCEPT !.nodes[clone].children =
                                           MapPut(@, key, c.ref)],
                           rm, clone, keys \ {key})

\* make([]T, n): a slice on a new array of n zero values; the result is the
\* state and the slice.
MakeSlice(lw, n) ==
    [w |-> [lw EXCEPT !.arrays = Append(lw.arrays, [i \in 1..n |-> Nil])],
     s |-> [arr |-> Len(lw.arrays) + 1, len |-> n, cap |-> n]]

\* The elements a slice shows.
Elements(lw, s) == [i \in 1..s.len |-> lw.arrays[s.arr][i]]

\* dst := make([]T, len(src)); copy(dst, src)
CopySlice(lw, src) ==
    LET m == MakeSlice(lw, src.len)
    IN  [w |-> [m.w EXCEPT !.arrays[m.s.arr] = Elements(lw, src)], s |-> m.s]

\* append(s, x): in place when the array has room, else on a new array of
\* twice the capacity (of one element for an empty one).
SliceAppend(lw, s, x) ==
    IF s.len < s.cap
    THEN [w |-> [lw EXCEPT !.arrays[s.arr][s.len + 1] = x],
          s |-> [s EXCEPT !.len = s.len + 1]]
    ELSE LET newcap == IF s.cap = 0 THEN 1 ELSE 2 * s.cap
             old == Elements(lw, s)
             arr == [i \in 1..newcap |->
                        IF i <= s.len THEN old[i]
                        ELSE IF i = s.len + 1 THEN x ELSE Nil]
         IN  [w |-> [lw EXCEPT !.arrays = Append(lw.arrays, arr)],
              s |-> [arr |-> Len(lw.arrays) + 1, len |-> s.len + 1,
                     cap |-> newcap]]

\* New(handler): the first logger.
New(lw, handler) ==
    LET w1 == NewRecursiveMap(lw)
        g == MakeSlice(w1, 0)
        c == MakeSlice(g.w, 0)
    IN  [c.w EXCEPT !.loggers = Append(c.w.loggers,
                                       [handler |-> handler,
                                        attrs |-> Len(w1.nodes),
                                        groups |-> g.s,
                                        callbacks |-> c.s])]

\* l.clone(): a new logger, the last of the result, with the receiver's
\* handler, copies of its group and callback slices and a clone of its
\* attribute tree.
clone(lw, l) ==
    LET g == CopySlice(lw, lw.loggers[l].groups)
        c == CopySlice(g.w, lw.loggers[l].callbacks)
        a == RecursiveMapClone(c.w, lw.loggers[l].attrs)
    IN  [a.w EXCEPT !.loggers = Append(a.w.loggers,
                                       [handler |-> lw.loggers[l].handler,
                                        attrs |-> a.ref,
                                        groups |-> g.s,
                                        callbacks |-> c.s])]

\* The logger a With* call has just made by clone.
NewLogger(lw) == Len(lw.loggers)

\* l.WithNested(keyPath, value)
WithNested(lw, l, keyPath, value) ==
    LET w1 == clone(lw, l)
    IN  RecursiveMapSet(w1, w1.loggers[NewLogger(w1)].attrs, keyPath, value)

\* l.WithDot(dotPath, value)
WithDot(lw, l, dotPath, value) ==
    LET w1 == clone(lw, l)
    IN  RecursiveMapSetByDotNotation(w1, w1.loggers[NewLogger(w1)].attrs,
                                     dotPath, value)

\* l.WithGroup(name)
WithGroup(lw, l, name) ==
    LET w1 == clone(lw, l)
        a == SliceAppend(w1, w1.loggers[NewLogger(w1)].groups, name)
    IN  [a.w EXCEPT !.loggers[NewLogger(w1)].groups = a.s]

\* l.WithCallback(fn); the receiver's mutex, free again when clone has
\* returned, is taken and released around the append.
WithCallback(lw, l, fn) ==
    LET w1 == clone(lw, l)
        a == SliceAppend(w1, w1.loggers[NewLogger(w1)].callbacks, fn)
    IN  [a.w EXCEPT !.loggers[NewLogger(w1)].callbacks = a.s]

\* The loop of WithAttrs from the n-th attribute on: each one set at the
\* receiver's groups followed by its key.
RECURSIVE SetAttrs(_, _, _, _, _)
SetAttrs(lw, l, newLogger, attrs, n) ==
    IF n > Len(attrs) THEN lw
    ELSE LET keyPath == Append(Elements(lw, lw.loggers[l].groups), attrs[n].Key)
         IN  SetAttrs(RecursiveMapSet(lw, lw.loggers[newLogger].attrs,
                                      keyPath, attrs[n].Value),
                      l, newLogger, attrs, n + 1)

\* l.WithAttrs(attrs)
WithAttrs(lw, l, attrs) ==
    LET w1 == clone(lw, l)
    IN  SetAttrs(w1, l, NewLogger(w1), attrs, 1)

\* The key paths and dot paths given to the loggers.
LoggerKeyPaths == {<<>>, <<sA>>, <<sA, sB>>}
LoggerDotPaths == {sA, sAB}

\* The group names and the callbacks given.
GroupNames == {<<"g">>, <<"h">>}
Callbacks == {"fn1", "fn2"}

\* The attribute lists given to WithAttrs.
AttrLists ==
    {<<[Key |-> sA, Value |-> "v1"]>>,
     <<[Key |-> sA, Value |-> "v2"], [Key |-> sB, Value |-> "v1"]>>}

LoggerIds == 1..Len(loggers)

\* The step to state lw by a With* call on logger l; origin records the
\* logger each one was derived from.
LoggerStep(lw, op, l) ==
    /\ Len(loggers) <= MaxDerived
    /\ nodes' = lw.nodes
    /\ arrays' = lw.arrays
    /\ loggers' = lw.loggers
    /\ origin' = Append(origin, l)
    /\ last' = [op |-> op, f |-> l, ret |-> NewLogger(lw)]
    /\ UNCHANGED <<heap, stores, nops, concVars, poolVars, maskVars, expandVars,
                   outputVars>>

DoWithNested ==
    \E l \in LoggerIds, keyPath \in LoggerKeyPaths, value \in Values :
        LoggerStep(WithNested(LoggerWorld, l, keyPath, value), "WithNested", l)

DoWithDot ==
    \E l \in LoggerIds, dotPath \in LoggerDotPaths, value \in Values :
        LoggerStep(WithDot(LoggerWorld, l, dotPath, value), "WithDot", l)

DoWithGroup ==
    \E l \in LoggerIds, name \in GroupNames :
        LoggerStep(WithGroup(LoggerWorld, l, name), "WithGroup", l)

DoWithCallback ==
    \E l \in LoggerIds, fn \in Callbacks :
        LoggerStep(WithCallback(LoggerWorld, l, fn), "WithCallback", l)

DoWithAttrs ==
    \E l \in LoggerIds, attrs \in AttrLists :
        LoggerStep(WithAttrs(LoggerWorld, l, attrs), "WithAttrs", l)

NextLogger ==
    \/ DoWithNested
    \/ DoWithDot
    \/ DoWithGroup
    \/ DoWithCallback
    \/ DoWithAttrs

\* One logger, made by New.
InitLogger ==
    /\ LET w == New([nodes |-> <<>>, arrays |-> <<>>, loggers |-> <<>>], "h1")
       IN  nodes = w.nodes /\ arrays = w.arrays /\ loggers = w.loggers
    /\ heap = <<>>
    /\ stores = <<>>
    /\ last = [op |-> "New", f |-> NilRef, ret |-> 1]
    /\ origin = <<NilRef>>
    /\ nops = 0
    /\ gs = <<>>
    /\ mu = <<>>
    /\ scenario = "loggers"
    /\ PoolsUnused
    /\ MaskUnused
    /\ ExpandUnused
    /\ OutputUnused

SpecLogger == InitLogger /\ [][NextLogger]_vars

\* ------------------------------------------------- the logger's handler
\*
\* SetHandler against Log, LogRecord and Handler on one logger
\* (src/logger.go:36-75, 170-181).  gs holds the goroutines, mu[l] the
\* mutex of logger l.  A handler is its name and the level it is enabled
\* from.

\* The value of a Level constant.
LevelValue(level) == IF level = "LevelError" THEN -4 ELSE -6

\* The handlers: the one given to New and the ones given to SetHandler.
Handlers ==
    {[id |-> "h1", level |-> "LevelInfo"], [id |-> "h2", level |-> "LevelError"]}

\* What a read of the handler field may yield when it overlaps a write:
\* the two words of the interface value taken from different handlers.
TornHandler == [id |-> "torn", level |-> Nil]

\* The nil interface value.
NoHandler == [id |-> "nil", level |-> Nil]

\* h.Enabled(ctx, level)
Enabled(h, level) == LevelValue(level) >= LevelValue(h.level)

\* The steps of a call on the logger, in the order of the code.  "enabled"
\* and "handle" read l.handler and call it; "merge" builds the record with
\* the logger's attributes; "callbacks" is the loop over l.callbacks;
\* "store" is the assignment of SetHandler and "load" the read of Handler.
LoggerPhases(call) ==
    CASE call.op \in {"Log", "LogRecord"} ->
            <<"enabled", "merge", "rlock", "callbacks", "runlock", "handle">>
      [] call.op = "SetHandler" -> <<"lock", "lockwait", "store", "unlock">>
      [] call.op = "Handler" -> <<"rlock", "load", "runlock">>
      [] OTHER -> <<>>

\* A call on logger l.
LoggerCall(op, l, level, handler) ==
    [op |-> op, l |-> l, level |-> level, handler |-> handler]

\* A goroutine before its first call: i is the step it is about to
\* execute (0: between calls), n the number of calls started, h the handler
\* its last read of the field yielded, ret the outcome of its last call.
IdleLoggerGoroutine ==
    [call |-> LoggerCall("none", NilRef, Nil, NoHandler), i |-> 0, n |-> 0,
     h |-> NoHandler, ret |-> Nil]

\* The calls goroutine g may make next: goroutine 1 sets the handler, the
\* others log and ask for the handler.
LoggerCalls(g) ==
    IF gs[g].n >= RaceCalls THEN {}
    ELSE IF g = 1
         THEN {LoggerCall("SetHandler", 1, Nil, h) : h \in Handlers}
         ELSE {LoggerCall(op, 1, level, NoHandler) :
                   op \in {"Log", "LogRecord"}, level \in Levels}
                  \cup {LoggerCall("Handler", 1, Nil, NoHandler)}

\* The step goroutine g is about to execute.
LoggerPhaseOf(gr) == IF gr.i = 0 THEN "idle" ELSE LoggerPhases(gr.call)[gr.i]

\* The goroutine moved past its step; the last step ends the call.
LoggerAdvance(gr) ==
    [gr EXCEPT !.i = IF gr.i + 1 > Len(LoggerPhases(gr.call)) THEN 0 ELSE gr.i + 1]

\* What the other parts of the state keep in a step of a logger goroutine.
LoggerFrame ==
    UNCHANGED <<heap, stores, origin, nops, scenario, nodes, arrays,
                poolVars, maskVars, expandVars, outputVars>>

\* A goroutine starts its next call.
LgCall(g) ==
    /\ gs[g].i = 0
    /\ \E call \in LoggerCalls(g) :
          gs' = [gs EXCEPT ![g] = [@ EXCEPT !.call = call, !.i = 1, !.n = @ + 1,
                                            !.h = NoHandler, !.ret = Nil]]
    /\ UNCHANGED <<mu, loggers, last>>
    /\ LoggerFrame

\* l.mu.Lock() announced, l.mu.Lock() returning, l.mu.RLock() returning.
LgLock(g) ==
    LET gr == gs[g]
        ph == LoggerPhaseOf(gr)
        l == gr.call.l
    IN  /\ ph \in {"lock", "lockwait", "rlock"}
        /\ ph = "lockwait" => CanLock(mu[l])
        /\ ph = "rlock" => CanRLock(mu[l])
        /\ mu' = [mu EXCEPT ![l] =
                     IF ph = "lock" THEN [@ EXCEPT !.pending = @ \cup {g}]
                     ELSE IF ph = "lockwait"
                          THEN [@ EXCEPT !.writer = g, !.pending = @ \ {g}]
                          ELSE [@ EXCEPT !.readers = @ \cup {g}]]
        /\ gs' = [gs EXCEPT ![g] = LoggerAdvance(gr)]
        /\ UNCHANGED <<loggers, last>>
        /\ LoggerFrame

\* l.mu.Unlock() and l.mu.RUnlock().
LgUnlock(g) ==
    LET gr == gs[g]
        ph == LoggerPhaseOf(gr)
        l == gr.call.l
    IN  /\ ph \in {"unlock", "runlock"}
        /\ mu' = [mu EXCEPT ![l] =
                     IF ph = "unlock" THEN [@ EXCEPT !.writer = NilRef]
                     ELSE [@ EXCEPT !.readers = @ \ {g}]]
        /\ gs' = [gs EXCEPT ![g] = LoggerAdvance(gr)]
        /\ UNCHANGED <<loggers, last>>
        /\ LoggerFrame

\* The goroutines about to assign the handler field of logger l.
Storing(l) ==
    {g \in DOMAIN gs : LoggerPhaseOf(gs[g]) = "store" /\ gs[g].call.l = l}

\* What a read of l.handler by goroutine g may yield: the field's value;
\* when the read is ordered with an assignment by no lock, the value being
\* assigned or a torn one as well.
HandlerRead(g, l) ==
    {loggers[l].handler}
        \cup IF g \in mu[l].readers \/ Storing(l) = {} THEN {}
             ELSE {gs[s].call.handler : s \in Storing(l)} \cup {TornHandler}

\* A goroutine reads l.handler: for Enabled (a disabled level ends the
\* call), for Handle (which ends it too), or to return it.  A call through
\* a torn interface value crashes.
LgRead(g) ==
    LET gr == gs[g]
        ph == LoggerPhaseOf(gr)
    IN  /\ ph \in {"enabled", "handle", "load"}
        /\ \E h \in HandlerRead(g, gr.call.l) :
              LET gr1 == [gr EXCEPT !.h = h]
              IN  /\ gs' = [gs EXCEPT ![g] =
                               IF ph = "load" THEN LoggerAdvance([gr1 EXCEPT !.ret = "returned"])
                               ELSE IF h = TornHandler
                                    THEN [gr1 EXCEPT !.i = 0, !.ret = "crash"]
                               ELSE IF ph = "enabled" /\ ~Enabled(h, gr.call.level)
                                    THEN [gr1 EXCEPT !.i = 0, !.ret = "disabled"]
                               ELSE IF ph = "handle"
                                    THEN [gr1 EXCEPT !.i = 0, !.ret = "handled"]
                                    ELSE LoggerAdvance(gr1)]
                  /\ last' = IF ph = "handle" /\ h # TornHandler
                             THEN [op |-> "Handle", handler |-> h, level |-> gr.call.level]
                             ELSE last
        /\ UNCHANGED <<mu, loggers>>
        /\ LoggerFrame

\* A goroutine builds its record or runs the callbacks: work on its own
\* record and on fields of the logger nobody assigns.
LgLocal(g) ==
    /\ LoggerPhaseOf(gs[g]) \in {"merge", "callbacks"}
    /\ gs' = [gs EXCEPT ![g] = LoggerAdvance(gs[g])]
    /\ UNCHANGED <<mu, loggers, last>>
    /\ LoggerFrame

\* l.handler = handler
LgStore(g) ==
    /\ LoggerPhaseOf(gs[g]) = "store"
    /\ loggers' = [loggers EXCEPT ![gs[g].call.l].handler = gs[g].call.handler]
    /\ gs' = [gs EXCEPT ![g] = LoggerAdvance(gs[g])]
    /\ UNCHANGED <<mu, last>>
    /\ LoggerFrame

NextHandlerRace ==
    \E g \in Goroutines :
        \/ LgCall(g)
        \/ LgLock(g)
        \/ LgUnlock(g)
        \/ LgRead(g)
        \/ LgLocal(g)
        \/ LgStore(g)

\* One logger made by New, shared by the goroutines.
InitHandlerRace ==
    /\ \E h \in Handlers :
          LET w == New([nodes |-> <<>>, arrays |-> <<>>, loggers |-> <<>>], h)
          IN  nodes = w.nodes /\ arrays = w.arrays /\ loggers = w.loggers
    /\ heap = <<>>
    /\ stores = <<>>
    /\ last = [op |-> "New", handler |-> NoHandler, level |-> Nil]
    /\ origin = <<NilRef>>
    /\ nops = 0
    /\ gs = [g \in Goroutines |-> IdleLoggerGoroutine]
    /\ mu = <<FreeMutex>>
    /\ scenario = "handler"
    /\ PoolsUnused
    /\ MaskUnused
    /\ ExpandUnused
    /\ OutputUnused

SpecHandlerRace == InitHandlerRace /\ [][NextHandlerRace]_vars

\* ----------------------------------------------------------- BaseHandler
\*
\* src/unnamed/part_003.  A BaseHandler holds its attributes in a
\* FlatAttributes of `stores` and its groups in a slice; the handlers made
\* so far are the records of `handlers`.

\* The number of handlers derived from the first one.
MaxHandlers == 3

\* The state the handlers' operators work on.
HandlerWorld ==
    [heap |-> heap, stores |-> stores, arrays |-> arrays, handlers |-> handlers]

\* NewBaseHandler(formatter, buffer, level)
NewBaseHandler(hw, formatter, buffer, level) ==
    LET w1 == WithStores(hw, NewFlatAttributes(StoresOf(hw)))
        g == MakeSlice(w1, 0)
    IN  [g.w EXCEPT !.handlers = Append(g.w.handlers,
                                        [formatter |-> formatter,
                                         buffer |-> buffer,
                                         level |-> level,
                                         attrs |-> Len(w1.stores),
                                         groups |-> g.s])]

\* The loop of WithAttrs from the n-th attribute on, the keys formed
\* without the receiver's groups.
RECURSIVE SetHandlerAttrsUngrouped(_, _, _, _, _)
SetHandlerAttrsUngrouped(hw, h, newAttrs, attrs, n) ==
    IF n > Len(attrs) THEN hw
    ELSE SetHandlerAttrsUngrouped(
             WithStores(hw, Set(StoresOf(hw), newAttrs, <<attrs[n].Key>>,
                                attrs[n].Value)),
             h, newAttrs, attrs, n + 1)

\* The loop of WithAttrs from the n-th attribute on: each one set in the
\* store newAttrs at the receiver's groups followed by its key.
RECURSIVE SetHandlerAttrs(_, _, _, _, _)
SetHandlerAttrs(hw, h, newAttrs, attrs, n) ==
    IF n > Len(attrs) THEN hw
    ELSE LET keyPath == Append(Elements(hw, hw.handlers[h].groups), attrs[n].Key)
         IN  SetHandlerAttrs(
                 WithStores(hw, Set(StoresOf(hw), newAttrs, keyPath, attrs[n].Value)),
                 h, newAttrs, attrs, n + 1)

\* h.WithAttrs(attrs): a new handler, the last of the result, with a clone
\* of the receiver's attributes, a copy of its groups, and the given
\* attributes set.
BaseHandlerWithAttrs(hw, h, attrs) ==
    LET w1 == WithStores(hw, Clone(StoresOf(hw), hw.handlers[h].attrs))
        newAttrs == Len(w1.stores)
        g == CopySlice(w1, hw.handlers[h].groups)
        w2 == SetHandlerAttrs(g.w, h, newAttrs, attrs, 1)
    IN  [w2 EXCEPT !.handlers = Append(w2.handlers,
                                       [hw.handlers[h] EXCEPT !.attrs = newAttrs,
                                                              !.groups = g.s])]

\* h.WithGroup(name): a new handler with a clone of the receiver's
\* attributes and, on a new array, its groups followed by name.
BaseHandlerWithGroup(hw, h, name) ==
    LET old == hw.handlers[h].groups
        m == MakeSlice(hw, old.len + 1)
        w1 == [m.w EXCEPT !.arrays[m.s.arr] =
                              [i \in 1..(old.len + 1) |->
                                  IF i <= old.len THEN Elements(hw, old)[i] ELSE name]]
        w2 == WithStores(w1, Clone(StoresOf(w1), hw.handlers[h].attrs))
    IN  [w2 EXCEPT !.handlers = Append(w2.handlers,
                                       [hw.handlers[h] EXCEPT !.attrs = Len(w2.stores),
                                                              !.groups = m.s])]

HandlerIds == 1..Len(handlers)

\* The step to state hw by a call on handler h with argument arg.
HandlerStep(hw, op, h, arg) ==
    /\ Len(handlers) <= MaxHandlers
    /\ heap' = hw.heap
    /\ stores' = hw.stores
    /\ arrays' = hw.arrays
    /\ handlers' = hw.handlers
    /\ origin' = Append(origin, h)
    /\ last' = [op |-> op, f |-> h, arg |-> arg, ret |-> Len(hw.handlers)]
    /\ UNCHANGED <<nops, concVars, poolVars, maskVars, expandVars, nodes, loggers,
                   membuf>>

DoBaseHandlerWithAttrs ==
    \E h \in HandlerIds, attrs \in AttrLists :
        HandlerStep(BaseHandlerWithAttrs(HandlerWorld, h, attrs), "WithAttrs", h, attrs)

DoBaseHandlerWithGroup ==
    \E h \in HandlerIds, name \in GroupNames :
        HandlerStep(BaseHandlerWithGroup(HandlerWorld, h, name), "WithGroup", h, name)

NextHandler ==
    \/ DoBaseHandlerWithAttrs
    \/ DoBaseHandlerWithGroup

\* One handler, made by NewBaseHandler.
InitHandler ==
    /\ \E level \in Levels :
          LET w == NewBaseHandler([heap |-> <<>>, stores |-> <<>>, arrays |-> <<>>,
                                   handlers |-> <<>>],
                                  "formatter", "buffer", level)
          IN  /\ heap = w.heap
              /\ stores = w.stores
              /\ arrays = w.arrays
              /\ handlers = w.handlers
    /\ last = [op |-> "NewBaseHandler", f |-> NilRef, arg |-> <<>>, ret |-> 1]
    /\ origin = <<NilRef>>
    /\ nops = 0
    /\ gs = <<>>
    /\ mu = <<>>
    /\ scenario = "handlers"
    /\ PoolsUnused
    /\ MaskUnused
    /\ ExpandUnused
    /\ nodes = <<>>
    /\ loggers = <<>>
    /\ membuf = <<>>

SpecHandler == InitHandler /\ [][NextHandler]_vars

\* ----------------------------------------------------------- MemoryBuffer
\*
\* src/unnamed/part_002.  membuf[1] is the buffer: the bytes of its
\* bytes.Buffer and its maxSize.

\* The largest maxSize given to NewMemoryBuffer, the longest slice given to
\* Write, and the number of calls made on the buffer.
MaxBufSize == 2
MaxWriteLen == 3
MaxBufCalls == 3

\* The bytes written.
BufBytes == {"x", "y"}

\* The byte slices given to Write.
RECURSIVE ByteSlices(_)
ByteSlices(n) ==
    IF n = 0 THEN {<<>>}
    ELSE ByteSlices(n - 1)
             \cup {Append(p, b) : p \in {q \in ByteSlices(n - 1) : Len(q) = n - 1},
                                  b \in BufBytes}

\* NewMemoryBuffer(maxSize)
NewMemoryBuffer(maxSize) == [buf |-> <<>>, maxSize |-> maxSize]

\* b.Write(p): the buffer is emptied first when p does not fit in what is
\* left of a positive maxSize; then p is appended.
MemoryBufferWrite(b, p) ==
    LET b1 == IF b.maxSize > 0 /\ Len(b.buf) + Len(p) > b.maxSize
              THEN [b EXCEPT !.buf = <<>>]
              ELSE b
    IN  [b1 EXCEPT !.buf = b1.buf \o p]

\* b.Reset(), and b.Close(), which does the same.
MemoryBufferReset(b) == [b EXCEPT !.buf = <<>>]

\* b.Size()
MemoryBufferSize(b) == Len(b.buf)

\* The step to buffer b by a call given p.
BufferStep(b, op, p) ==
    /\ nops < MaxBufCalls
    /\ membuf' = <<b>>
    /\ nops' = nops + 1
    /\ last' = [op |-> op, p |-> p, ret |-> Len(p)]
    /\ UNCHANGED <<heap, stores, origin, concVars, poolVars, maskVars, expandVars,
                   loggerVars, handlers>>

DoMemoryBufferWrite ==
    \E p \in ByteSlices(MaxWriteLen) :
        BufferStep(MemoryBufferWrite(membuf[1], p), "Write", p)

DoMemoryBufferReset ==
    BufferStep(MemoryBufferReset(membuf[1]), "Reset", <<>>)

DoMemoryBufferClose ==
    BufferStep(MemoryBufferReset(membuf[1]), "Close", <<>>)

NextBuffer ==
    \/ DoMemoryBufferWrite
    \/ DoMemoryBufferReset
    \/ DoMemoryBufferClose

\* One buffer, made by NewMemoryBuffer with a maxSize of 0 (no limit) or
\* more.
InitBuffer ==
    /\ \E maxSize \in 0..MaxBufSize : membuf = <<NewMemoryBuffer(maxSize)>>
    /\ handlers = <<>>
    /\ heap = <<>>
    /\ stores = <<>>
    /\ last = [op |-> "NewMemoryBuffer", p |-> <<>>, ret |-> 0]
    /\ origin = <<>>
    /\ nops = 0
    /\ gs = <<>>
    /\ mu = <<>>
    /\ scenario = "buffer"
    /\ PoolsUnused
    /\ MaskUnused
    /\ ExpandUnused
    /\ LoggersUnused

SpecBuffer == InitBuffer /\ [][NextBuffer]_vars

\* ---------------------------------------------------------- SetFast only
\*
\* One zero-value store written by SetFast alone, with one key more than
\* the inline array holds.  The keys are taken in order: a call writes a
\* key written before or the first key not written yet, which is every
\* sequence of calls up to the names of the keys.

\* The number of SetFast calls.
MaxFastOps == 10

\* The i-th key: "k<i>".
FastKey(i) == <<"k", DigitChars[i + 1]>>

\* The keys written so far, with the value last written to each.
Written == last.written

\* The keys a call may write.
FastKeys ==
    LET n == Cardinality(DOMAIN Written)
    IN  {FastKey(i) : i \in 1..(IF n > SmallCap THEN SmallCap + 1 ELSE n + 1)}

DoSetFastOnly ==
    \E key \in FastKeys, value \in Values :
        LET w == SetFast(World, 1, key, value)
        IN  /\ nops < MaxFastOps
            /\ heap' = w.heap
            /\ stores' = w.stores
            /\ last' = [op |-> "SetFast", f |-> 1, key |-> key, value |-> value,
                        written |-> MapPut(Written, key, value)]
            /\ nops' = nops + 1
            /\ UNCHANGED <<origin, concVars, poolVars, maskVars, auxVars>>

NextFast == DoSetFastOnly

\* var f FlatAttributes
InitFast ==
    /\ LET w == NewZeroValue(NoWorld)
       IN  heap = w.heap /\ stores = w.stores
    /\ last = [op |-> "init", f |-> NilRef, key |-> <<>>, value |-> Nil,
               written |-> EmptyMap]
    /\ origin = <<NilRef>>
    /\ nops = 0
    /\ gs = <<>>
    /\ mu = <<>>
    /\ scenario = "setfast"
    /\ PoolsUnused
    /\ MaskUnused
    /\ AuxUnused

SpecFast == InitFast /\ [][NextFast]_vars

\* ------------------------------------------------- RecursiveMap and its pool

\* The calls a behaviour of the RecursiveMap operations makes.
MaxTreeOps == 3

\* The RecursiveMaps the caller holds, and the FlatAttributes.
TreeRoots == {1, 2, 3}
FlatRoots == {1, 2}

\* The key paths given to the RecursiveMaps.
TreePaths == {<<>>, <<sA>>, <<sA, sB>>}

\* The key paths given to the FlatAttributes next to them.
FlatPaths == {<<sA>>, <<sA, sB>>}

\* The nodes and the pool they are taken from and returned to.
TreeWorld == [nodes |-> nodes, recursiveMapPool |-> recursiveMapPool]

\* rm.Get(keyPath): the value and whether there is one.
RECURSIVE RecursiveMapGet(_, _, _)
RecursiveMapGet(tw, rm, keyPath) ==
    IF Len(keyPath) = 0
    THEN <<tw.nodes[rm].value, tw.nodes[rm].hasValue>>
    ELSE LET key == keyPath[1]
         IN  IF key \notin DOMAIN tw.nodes[rm].children
             THEN <<Nil, FALSE>>
             ELSE RecursiveMapGet(tw, tw.nodes[rm].children[key], Tail(keyPath))

\* rm.Has(keyPath)
RecursiveMapHas(tw, rm, keyPath) == RecursiveMapGet(tw, rm, keyPath)[2]

\* rm.Delete(keyPath): the empty path clears the receiver's value; a path
\* of one key removes the child that has no children, whatever it holds,
\* and clears the value of the child that has some; a longer path goes on
\* in the child.  The result is the state and the value returned.
RECURSIVE RecursiveMapDelete(_, _, _)
RecursiveMapDelete(tw, rm, keyPath) ==
    IF Len(keyPath) = 0
    THEN IF tw.nodes[rm].hasValue
         THEN [w |-> [tw EXCEPT !.nodes[rm].value = Nil,
                                !.nodes[rm].hasValue = FALSE],
               ret |-> TRUE]
         ELSE [w |-> tw, ret |-> FALSE]
    ELSE LET key == keyPath[1]
         IN  IF key \notin DOMAIN tw.nodes[rm].children
             THEN [w |-> tw, ret |-> FALSE]
             ELSE LET child == tw.nodes[rm].children[key]
                  IN  IF Len(keyPath) = 1
                      THEN IF DOMAIN tw.nodes[child].children = {}
                           THEN [w |-> [tw EXCEPT !.nodes[rm].children =
                                                      MapDelete(@, key)],
                                 ret |-> TRUE]
                           ELSE RecursiveMapDelete(tw, child, <<>>)
                      ELSE RecursiveMapDelete(tw, child, Tail(keyPath))

\* The sum of the sizes of the children named by keys.
RECURSIVE RecursiveMapSize(_, _), SizeOfChildren(_, _, _)
SizeOfChildren(tw, rm, keys) ==
    IF keys = {} THEN 0
    ELSE LET key == CHOOSE k \in keys : TRUE
         IN  RecursiveMapSize(tw, tw.nodes[rm].children[key])
             + SizeOfChildren(tw, rm, keys \ {key})

\* rm.Size(): the number of nodes with a value.
RecursiveMapSize(tw, rm) ==
    (IF tw.nodes[rm].hasValue THEN 1 ELSE 0)
    + SizeOfChildren(tw, rm, DOMAIN tw.nodes[rm].children)

\* rm.IsEmpty(): no value and no child.
RecursiveMapIsEmpty(tw, rm) ==
    ~tw.nodes[rm].hasValue /\ DOMAIN tw.nodes[rm].children = {}

\* recursiveMapPool.Get(): a pooled node, or the node New makes; reuse says
\* which when the pool holds one.
RecursiveMapPoolGet(tw, reuse) ==
    IF reuse /\ tw.recursiveMapPool # {}
    THEN LET rm == CHOOSE n \in tw.recursiveMapPool : TRUE
         IN  [w |-> [tw EXCEPT !.recursiveMapPool = @ \ {rm}], ref |-> rm]
    ELSE LET w0 == NewRecursiveMap(tw)
         IN  [w |-> w0, ref |-> Len(w0.nodes)]

\* rm.reset(): every child returned to the pool and removed, the value
\* cleared.  ReturnRecursiveMapToPool: nothing for nil, else reset and Put.
RECURSIVE RecursiveMapReset(_, _), ResetChildren(_, _, _),
          ReturnRecursiveMapToPool(_, _)
RecursiveMapReset(tw, rm) ==
    LET w1 == ResetChildren(tw, rm, DOMAIN tw.nodes[rm].children)
    IN  [w1 EXCEPT !.nodes[rm].value = Nil, !.nodes[rm].hasValue = FALSE]

\* The loop of reset over the children still held.
ResetChildren(tw, rm, keys) ==
    IF keys = {} THEN tw
    ELSE LET key == CHOOSE k \in keys : TRUE
             w1 == ReturnRecursiveMapToPool(tw, tw.nodes[rm].children[key])
         IN  ResetChildren([w1 EXCEPT !.nodes[rm].children = MapDelete(@, key)],
                           rm, keys \ {key})

ReturnRecursiveMapToPool(tw, rm) ==
    IF rm = NilRef THEN tw
    ELSE [RecursiveMapReset(tw, rm) EXCEPT !.recursiveMapPool = @ \cup {rm}]

\* NewRecursiveMapFromPool(): a node of the pool, reset.
NewRecursiveMapFromPool(tw, reuse) ==
    LET g == RecursiveMapPoolGet(tw, reuse)
    IN  [w |-> RecursiveMapReset(g.w, g.ref), ref |-> g.ref]

\* A CloneFromPool that copies the receiver's node only and points at the
\* receiver's children.
RecursiveMapCloneFromPoolShallow(tw, rm, reuse) ==
    LET n == NewRecursiveMapFromPool(tw, reuse)
    IN  [w |-> [n.w EXCEPT !.nodes[n.ref] = tw.nodes[rm]], ref |-> n.ref]

\* rm.CloneFromPool(): a node of the pool with the receiver's value and a
\* CloneFromPool of each child.
RECURSIVE RecursiveMapCloneFromPool(_, _, _),
          CloneChildrenFromPool(_, _, _, _, _)
RecursiveMapCloneFromPool(tw, rm, reuse) ==
    LET n == NewRecursiveMapFromPool(tw, reuse)
        w1 == [n.w EXCEPT !.nodes[n.ref].hasValue = tw.nodes[rm].hasValue,
                          !.nodes[n.ref].value = tw.nodes[rm].value]
    IN  [w |-> CloneChildrenFromPool(w1, rm, n.ref,
                                     DOMAIN tw.nodes[rm].children, reuse),
         ref |-> n.ref]

\* The loop of CloneFromPool over the children still to copy.
CloneChildrenFromPool(tw, rm, dst, keys, reuse) ==
    IF keys = {} THEN tw
    ELSE LET key == CHOOSE k \in keys : TRUE
             c == RecursiveMapCloneFromPool(tw, tw.nodes[rm].children[key], reuse)
         IN  CloneChildrenFromPool([c.w EXCEPT !.nodes[dst].children =
                                                   MapPut(@, key, c.ref)],
                                   rm, dst, keys \ {key}, reuse)

\* rm.Merge(other): other's value when it has one; each child of other
\* cloned from the pool into the receiver when the receiver has no child of
\* that key, and merged into the receiver's child when it has one.
RECURSIVE RecursiveMapMerge(_, _, _, _), MergeChildren(_, _, _, _, _)
RecursiveMapMerge(tw, rm, other, reuse) ==
    LET w1 == IF tw.nodes[other].hasValue
              THEN [tw EXCEPT !.nodes[rm].value = tw.nodes[other].value,
                              !.nodes[rm].hasValue = TRUE]
              ELSE tw
    IN  MergeChildren(w1, rm, other, DOMAIN w1.nodes[other].children, reuse)

\* The loop of Merge over the children of other still to visit.
MergeChildren(tw, rm, other, keys, reuse) ==
    IF keys = {} THEN tw
    ELSE LET key == CHOOSE k \in keys : TRUE
             child == tw.nodes[other].children[key]
             w1 == IF key \notin DOMAIN tw.nodes[rm].children
                   THEN LET c == RecursiveMapCloneFromPool(tw, child, reuse)
                        IN  [c.w EXCEPT !.nodes[rm].children =
                                            MapPut(@, key, c.ref)]
                   ELSE RecursiveMapMerge(tw, tw.nodes[rm].children[key],
                                          child, reuse)
         IN  MergeChildren(w1, rm, other, keys \ {key}, reuse)

\* The step of a RecursiveMap operation: tw is the result, call the call
\* made, hist the pairs merged so far and the maps given back to the
\* pool, which their holder uses no more.
TreeStep(tw, call, hist) ==
    /\ scenario = "trees"
    /\ nops < MaxTreeOps
    /\ call.f \notin origin.released
    /\ nodes' = tw.nodes
    /\ recursiveMapPool' = tw.recursiveMapPool
    /\ last' = call
    /\ origin' = hist
    /\ nops' = nops + 1
    /\ UNCHANGED <<heap, stores, concVars, records, flatAttributesPool, recordPool,
                   acquired, maskVars, expandVars, arrays, loggers, outputVars>>

DoRecursiveMapSet ==
    \E rm \in TreeRoots, keyPath \in TreePaths, value \in Values :
        TreeStep(RecursiveMapSet(TreeWorld, rm, keyPath, value),
                 Call("TreeSet", rm, keyPath, <<>>, value, NilRef, Nil), origin)

DoRecursiveMapDelete ==
    \E rm \in TreeRoots, keyPath \in TreePaths :
        LET d == RecursiveMapDelete(TreeWorld, rm, keyPath)
        IN  TreeStep(d.w, Call("TreeDelete", rm, keyPath, <<>>, Nil, NilRef, d.ret),
                     origin)

DoRecursiveMapMerge ==
    \E rm \in TreeRoots, other \in TreeRoots, reuse \in BOOLEAN :
        /\ other \notin origin.released
        /\ TreeStep(RecursiveMapMerge(TreeWorld, rm, other, reuse),
                    Call("TreeMerge", rm, <<>>, <<>>, Nil, other, Nil),
                    [origin EXCEPT !.merged = @ \cup {<<rm, other>>}])

DoReturnRecursiveMapToPool ==
    \E rm \in TreeRoots :
        TreeStep(ReturnRecursiveMapToPool(TreeWorld, rm),
                 Call("TreeReturn", rm, <<>>, <<>>, Nil, NilRef, Nil),
                 [origin EXCEPT !.released = @ \cup {rm}])

\* The step of a FlatAttributes operation next to them: pw is the result.
FlatStep(pw, call, hist) ==
    /\ scenario = "flats"
    /\ nops < MaxTreeOps
    /\ call.f \notin origin.released
    /\ heap' = pw.heap
    /\ stores' = pw.stores
    /\ flatAttributesPool' = pw.flatAttributesPool
    /\ last' = call
    /\ origin' = hist
    /\ nops' = nops + 1
    /\ UNCHANGED <<concVars, records, recordPool, recursiveMapPool, acquired,
                   maskVars, auxVars>>

DoFlatSet ==
    \E f \in FlatRoots, keyPath \in FlatPaths, value \in Values :
        FlatStep(WithStores(PoolWorld, Set(World, f, keyPath, value)),
                 Call("Set", f, keyPath, <<>>, value, NilRef, Nil), origin)

DoFlatDelete ==
    \E f \in FlatRoots, keyPath \in FlatPaths :
        LET d == Delete(World, f, keyPath)
        IN  FlatStep(WithStores(PoolWorld, d.w),
                     Call("Delete", f, keyPath, <<>>, Nil, NilRef, d.ret), origin)

DoFlatMerge ==
    \E f \in FlatRoots, other \in FlatRoots :
        /\ other \notin origin.released
        /\ FlatStep(WithStores(PoolWorld, Merge(World, f, other)),
                    Call("Merge", f, <<>>, <<>>, Nil, other, Nil),
                    [origin EXCEPT !.merged = @ \cup {<<f, other>>}])

DoFlatReturn ==
    \E f \in FlatRoots :
        FlatStep(ReturnFlatAttributesToPool(PoolWorld, f),
                 Call("Return", f, <<>>, <<>>, Nil, NilRef, Nil),
                 [origin EXCEPT !.released = @ \cup {f}])

NextTree ==
    \/ DoRecursiveMapSet
    \/ DoRecursiveMapDelete
    \/ DoRecursiveMapMerge
    \/ DoReturnRecursiveMapToPool
    \/ DoFlatSet
    \/ DoFlatDelete
    \/ DoFlatMerge
    \/ DoFlatReturn

\* The RecursiveMaps of filled hold a value at a.b, the others nothing.
RECURSIVE FillTrees(_, _)
FillTrees(tw, filled) ==
    IF filled = {} THEN tw
    ELSE LET rm == CHOOSE r \in filled : TRUE
         IN  FillTrees(RecursiveMapSet(tw, rm, <<sA, sB>>, "v1"), filled \ {rm})

\* Three RecursiveMaps of NewRecursiveMap, some of them written to, or two
\* stores of NewFlatAttributes; nothing pooled, nothing merged.
InitTree ==
    /\ scenario \in {"trees", "flats"}
    /\ \E filled \in SUBSET TreeRoots :
          nodes = IF scenario = "trees"
                  THEN FillTrees(NewRecursiveMap(NewRecursiveMap(NewRecursiveMap(
                                     [nodes |-> <<>>]))), filled).nodes
                  ELSE <<>>
    /\ LET w == IF scenario = "flats"
                THEN NewFlatAttributes(NewFlatAttributes(NoWorld))
                ELSE NoWorld
       IN  heap = w.heap /\ stores = w.stores
    /\ last = Call("init", NilRef, <<>>, <<>>, Nil, NilRef, Nil)
    /\ origin = [merged |-> {}, released |-> {}]
    /\ nops = 0
    /\ gs = <<>>
    /\ mu = <<>>
    /\ PoolsUnused
    /\ MaskUnused
    /\ ExpandUnused
    /\ arrays = <<>>
    /\ loggers = <<>>
    /\ OutputUnused

SpecTree == InitTree /\ [][NextTree]_vars

\* ------------------------------------------- ExpandStruct, call by call

(***************************************************************************)
(* ExpandStruct on structs that point at each other.  The structs are      *)
(* objects in memory, a pointer field holds the index of the struct it     *)
(* points at, and the recursion is the goroutine's stack of calls: a call  *)
(* is at a struct, at one of its fields, with its prefix.                  *)
(***************************************************************************)

\* The calls the goroutine's stack holds before the runtime ends the
\* program with a stack overflow.
MaxStack == 3

\* A pointer to the struct at index to; a nil pointer when to is NilRef.
Ref(to) == [kind |-> "ref", to |-> to]

sNext == <<"N", "e", "x", "t">>

\* The structs in memory, next[k] what the pointer field of the k-th one
\* holds: each has a string field and a pointer field.
StructGraph(next) ==
    [k \in DOMAIN next |-> <<Field(sName, <<>>, StringValue(<<"s">>)),
                             Field(sNext, <<>>, Ref(next[k]))>>]

\* One struct or two; a pointer field is nil or points at one of the
\* structs, its own included.
StructGraphs ==
    {StructGraph(next) : next \in UNION {[1..n -> {NilRef} \cup (1..n)] : n \in {1, 2}}}

\* The call on top of the stack.
TopCall == gs[1].stack[Len(gs[1].stack)]

\* The field the call on top of the stack is at.
TopField == expandIn[1].objects[TopCall.obj][TopCall.i]

\* field.Kind() == reflect.Ptr && !field.IsNil() && field.Elem().Kind() ==
\* reflect.Struct
IsNestedRef(v) == v.kind = "ref" /\ v.to # NilRef

Expanding ==
    /\ scenario = "cyclic"
    /\ gs[1].status = "running"
    /\ gs[1].stack # <<>>

\* The top call with its loop moved to the next field.
NextField == [gs EXCEPT ![1].stack[Len(gs[1].stack)].i = @ + 1]

CyclicFrame ==
    UNCHANGED <<last, origin, nops, mu, scenario, poolVars, maskVars, expandIn,
                loggerVars, outputVars>>

\* A pass of the loop over a field that is not recursed into: skipped when
\* unexported, else stored, masked when its tag says so.
ExpandLeafField ==
    /\ Expanding
    /\ TopCall.i <= Len(expandIn[1].objects[TopCall.obj])
    /\ ~(CanInterface(TopField) /\ IsNestedRef(TopField.value))
    /\ LET w == IF ~CanInterface(TopField) THEN World
                ELSE SetByDotNotation(World, ExpandStore,
                                      FieldKey(TopCall.prefix, TopField),
                                      IF HasPrefix(TopField.Tag, sMask)
                                      THEN maskValue(TopField.value, TopField.Tag)
                                      ELSE TopField.value)
       IN  /\ heap' = w.heap
           /\ stores' = w.stores
    /\ gs' = NextField
    /\ UNCHANGED expandDone
    /\ CyclicFrame

\* A pass of the loop over a non-nil pointer to a struct: ExpandStruct is
\* called on it with the field's key as the prefix.
ExpandRecurse ==
    /\ Expanding
    /\ TopCall.i <= Len(expandIn[1].objects[TopCall.obj])
    /\ CanInterface(TopField) /\ IsNestedRef(TopField.value)
    /\ Len(gs[1].stack) < MaxStack
    /\ gs' = [NextField EXCEPT ![1].stack =
                 Append(@, [obj |-> TopField.value.to, i |-> 1,
                            prefix |-> FieldKey(TopCall.prefix, TopField)])]
    /\ UNCHANGED <<heap, stores, expandDone>>
    /\ CyclicFrame

\* The same call when the stack is full: the runtime ends the program.
ExpandOverflow ==
    /\ Expanding
    /\ TopCall.i <= Len(expandIn[1].objects[TopCall.obj])
    /\ CanInterface(TopField) /\ IsNestedRef(TopField.value)
    /\ Len(gs[1].stack) >= MaxStack
    /\ gs' = [gs EXCEPT ![1].status = "stack overflow"]
    /\ UNCHANGED <<heap, stores, expandDone>>
    /\ CyclicFrame

\* The loop is over: the call returns, to its caller's loop or, for the
\* first call, to the caller of ExpandStruct.
ExpandReturn ==
    /\ Expanding
    /\ TopCall.i > Len(expandIn[1].objects[TopCall.obj])
    /\ LET rest == SubSeq(gs[1].stack, 1, Len(gs[1].stack) - 1)
       IN  /\ gs' = [gs EXCEPT ![1].stack = rest,
                               ![1].status = IF rest = <<>> THEN "returned"
                                             ELSE "running"]
           /\ expandDone' = (rest = <<>>)
    /\ UNCHANGED <<heap, stores>>
    /\ CyclicFrame

NextCyclic ==
    \/ ExpandLeafField
    \/ ExpandRecurse
    \/ ExpandOverflow
    \/ ExpandReturn

\* ExpandStruct has just been called with a prefix and a pointer to the
\* first of the structs, on a store of NewFlatAttributes or a zero value.
InitCyclic ==
    /\ \E k1 \in {"new", "zero"} :
          LET w == IF k1 = "new" THEN NewFlatAttributes(NoWorld)
                   ELSE NewZeroValue(NoWorld)
          IN  heap = w.heap /\ stores = w.stores
    /\ last = Call("init", NilRef, <<>>, <<>>, Nil, NilRef, Nil)
    /\ origin = <<NilRef>>
    /\ nops = 0
    /\ mu = <<>>
    /\ scenario = "cyclic"
    /\ PoolsUnused
    /\ MaskUnused
    /\ \E prefix \in Prefixes, objects \in StructGraphs :
          /\ expandIn = <<[prefix |-> prefix, value |-> Ref(1), objects |-> objects]>>
          /\ gs = <<[stack |-> <<[obj |-> 1, i |-> 1, prefix |-> prefix]>>,
                     status |-> "running"]>>
    /\ expandDone = FALSE
    /\ LoggersUnused
    /\ OutputUnused

\* The goroutine that called ExpandStruct keeps running.
FairCyclic == WF_vars(NextCyclic)

SpecCyclic == InitCyclic /\ [][NextCyclic]_vars /\ FairCyclic

\* ------------------------------------------------------------ MultiHandler

\* The sub-handlers of a MultiHandler.
MaxSubHandlers == 3

\* What a sub-handler's Handle returns: nil or an error.
HandleResults == {Nil, "err1", "err2"}

\* The call of MultiHandler.Handle before its loop: no pass made, lastErr
\* nil, the record handed to nobody yet.
MultiHandleEntry ==
    [op |-> "MultiHandler.Handle", i |-> 0, lastErr |-> Nil, handled |-> <<>>,
     ret |-> Nil, done |-> FALSE]

\* A pass of the loop that keeps the first error instead of the last.
MultiHandlePassFirstError(call, subs) ==
    LET handler == subs[call.i + 1]
    IN  [call EXCEPT !.i = @ + 1,
                     !.handled = Append(@, handler.id),
                     !.lastErr = IF @ = Nil THEN handler.err ELSE @]

\* A pass of the loop of Handle: the next sub-handler is handed the record,
\* and its error, when it returns one, becomes lastErr.
MultiHandlePass(call, subs) ==
    LET handler == subs[call.i + 1]
    IN  [call EXCEPT !.i = @ + 1,
                     !.handled = Append(@, handler.id),
                     !.lastErr = IF handler.err # Nil THEN handler.err ELSE @]

MultiFrame ==
    UNCHANGED <<heap, stores, origin, nops, concVars, poolVars, maskVars, expandVars,
                loggerVars, handlers, membuf>>

DoMultiHandlePass ==
    /\ scenario = "multi"
    /\ ~last.done
    /\ last.i < Len(handlers)
    /\ last' = MultiHandlePass(last, handlers)
    /\ MultiFrame

\* return lastErr
DoMultiHandleReturn ==
    /\ scenario = "multi"
    /\ ~last.done
    /\ last.i = Len(handlers)
    /\ last' = [last EXCEPT !.ret = last.lastErr, !.done = TRUE]
    /\ MultiFrame

NextMulti ==
    \/ DoMultiHandlePass
    \/ DoMultiHandleReturn

\* NewMultiHandler(handlers...) with up to MaxSubHandlers sub-handlers, each
\* one failing or not, and Handle just called on it.
InitMulti ==
    /\ heap = <<>>
    /\ stores = <<>>
    /\ last = MultiHandleEntry
    /\ origin = <<>>
    /\ nops = 0
    /\ gs = <<>>
    /\ mu = <<>>
    /\ scenario = "multi"
    /\ PoolsUnused
    /\ MaskUnused
    /\ ExpandUnused
    /\ LoggersUnused
    /\ \E n \in 0..MaxSubHandlers :
          \E errs \in [1..n -> HandleResults] :
              handlers = [k \in 1..n |-> [id |-> k, err |-> errs[k]]]
    /\ membuf = <<>>

SpecMulti == InitMulti /\ [][NextMulti]_vars

\* ----------------------------------------------------------------- claims

\* The state a step leads to.
WorldNext == [heap |-> heap', stores |-> stores']

\* Every key the calls of this model can store under.
AllKeys == DotPaths \cup {Join(p) : p \in KeyPaths}

\* The populated keys of store f: those HasByDotNotation reports.
Populated(w, f) == {k \in AllKeys : HasByDotNotation(w, f, k)}

\* C1: after Set(p, v) with a non-empty p, or SetByDotNotation(p, v) with a
\* non-empty p, Get(p) returns (v, true), whatever was written before.
C1_SetThenGet ==
    /\ (last.op = "Set" /\ Len(last.keyPath) > 0)
          => Get(World, last.f, last.keyPath) = <<last.value, TRUE>>
    /\ (last.op = "SetByDotNotation" /\ Len(last.key) > 0)
          => GetByDotNotation(World, last.f, last.key) = <<last.value, TRUE>>

\* C2: Set with a path of no segment changes nothing: the size, the keys
\* and the result of every Get of the store are what they were.
C2_SetEmptyPathNoOp ==
    [][(last'.op = "Set" /\ Len(last'.keyPath) = 0) =>
          LET f == last'.f IN
          /\ Size(WorldNext, f) = Size(World, f)
          /\ Keys(WorldNext, f) = Keys(World, f)
          /\ Populated(WorldNext, f) = Populated(World, f)
          /\ \A q \in KeyPaths : Get(WorldNext, f, q) = Get(World, f, q)]_vars

\* C2's case: Set was called with the empty path on a store holding entries.
C2_Witness ==
    /\ last.op = "Set"
    /\ Len(last.keyPath) = 0
    /\ ~IsEmpty(World, last.f)

\* C3: Get with a path of no segment reports (nil, false) in every state.
C3_GetEmptyPathNotFound ==
    \A f \in StoreIds : Get(World, f, <<>>) = <<Nil, FALSE>>

\* C4: for stores A and B with disjoint key sets, A.Merge(B) leaves A with
\* the union of both key sets, each key with its original value, and leaves
\* B as it was.
C4_MergeDisjointUnion ==
    [][(/\ last'.op = "Merge"
        /\ Populated(World, last'.f) \cap Populated(World, last'.other) = {}) =>
          LET a == last'.f
              b == last'.other
          IN  /\ Populated(WorldNext, a) = Populated(World, a) \cup Populated(World, b)
              /\ \A k \in Populated(World, a) :
                    GetByDotNotation(WorldNext, a, k) = GetByDotNotation(World, a, k)
              /\ \A k \in Populated(World, b) :
                    GetByDotNotation(WorldNext, a, k) = GetByDotNotation(World, b, k)
              /\ \A k \in AllKeys :
                    GetByDotNotation(WorldNext, b, k) = GetByDotNotation(World, b, k)]_vars

\* C5: when A and B both hold key k with different values, after A.Merge(B)
\* A.GetByDotNotation(k) returns B's value.
C5_MergeConflictSourceWins ==
    [][last'.op = "Merge" =>
          LET a == last'.f
              b == last'.other
          IN  \A k \in Populated(World, a) \cap Populated(World, b) :
                 GetByDotNotation(World, a, k) # GetByDotNotation(World, b, k)
                    => GetByDotNotation(WorldNext, a, k) = GetByDotNotation(World, b, k)]_vars

\* C6: the store Clone returns holds exactly the source's entries: every
\* Get of the clone equals that Get of the source at the time of the call.
C6_CloneHoldsSourceEntries ==
    [][last'.op = "Clone" =>
          \A k \in AllKeys :
             GetByDotNotation(WorldNext, last'.ret, k)
                = GetByDotNotation(World, last'.f, k)]_vars

\* A call that mutates its receiver.
IsMutation(op) ==
    op \in {"Set", "SetByDotNotation", "SetFast", "Delete", "Merge", "reset"}

\* Every Get and Has of store g gives the same result before and after the step.
SameReads(g) ==
    /\ \A q \in KeyPaths : Get(WorldNext, g, q) = Get(World, g, q)
    /\ \A q \in KeyPaths : Has(WorldNext, g, q) = Has(World, g, q)
    /\ \A k \in AllKeys :
          GetByDotNotation(WorldNext, g, k) = GetByDotNotation(World, g, k)

\* C7: after c := A.Clone(), a later mutation of A changes no Get or Has of
\* c, and a later mutation of c changes no Get or Has of A.
C7_CloneIndependent ==
    [][\A c \in StoreIds :
          (origin[c] # NilRef /\ IsMutation(last'.op)) =>
             /\ last'.f = origin[c] => SameReads(c)
             /\ last'.f = c => SameReads(origin[c])]_vars

\* C7's case: a store holding entries was cloned, and one of the pair was
\* then mutated so that its own reads differ from the other's.
C7_Witness ==
    \E c \in StoreIds :
        /\ origin[c] # NilRef
        /\ IsMutation(last.op)
        /\ last.f \in {c, origin[c]}
        /\ Populated(World, c) # {}
        /\ Populated(World, origin[c]) # {}
        /\ \E k \in AllKeys :
              GetByDotNotation(World, c, k) # GetByDotNotation(World, origin[c], k)

\* C8: Delete(p) returns true exactly when Has(p) was true before the call,
\* afterwards Has(p) is false and every other key has the value it had.
C8_DeleteReportsRemoval ==
    [][last'.op = "Delete" =>
          LET f == last'.f
              p == last'.keyPath
          IN  /\ last'.ret = Has(World, f, p)
              /\ ~Has(WorldNext, f, p)
              /\ \A k \in AllKeys \ {Join(p)} :
                    GetByDotNotation(WorldNext, f, k) = GetByDotNotation(World, f, k)]_vars

\* C9: Walk calls the visitor exactly once for every populated key, with
\* the value Get returns, and for nothing else.
C9_WalkVisitsEachKeyOnce ==
    \A f \in StoreIds :
        LET visited == Walk(World, f) IN
        /\ \A x \in BagToSet(visited) :
              /\ CopiesIn(x, visited) = 1
              /\ GetByDotNotation(World, f, Join(x[1])) = <<x[2], TRUE>>
              /\ \A y \in BagToSet(visited) : Join(y[1]) = Join(x[1]) => y = x
        /\ \A k \in Populated(World, f) :
              \E x \in BagToSet(visited) : Join(x[1]) = k

\* C10: Keys() returns, without duplicates, exactly the keys that
\* HasByDotNotation reports, Size() is their number, and IsEmpty() is true
\* exactly when there is none.
C10_ObserversAgree ==
    \A f \in StoreIds :
        /\ Keys(World, f) = SetToBag(Populated(World, f))
        /\ Size(World, f) = Cardinality(Populated(World, f))
        /\ IsEmpty(World, f) <=> (Populated(World, f) = {})

\* What following the segments `parts` through nested mapping `node` reaches:
\* <<value, TRUE>>, or <<Nil, FALSE>> when the way ends early or on a map.
RECURSIVE NestedLookup(_, _)
NestedLookup(node, parts) ==
    IF node.kind # "map" \/ Len(parts) = 0 \/ parts[1] \notin DOMAIN node.m
    THEN <<Nil, FALSE>>
    ELSE IF Len(parts) = 1
         THEN IF node.m[parts[1]].kind = "leaf"
              THEN <<node.m[parts[1]].value, TRUE>>
              ELSE <<Nil, FALSE>>
         ELSE NestedLookup(node.m[parts[1]], Tail(parts))

\* C11: ToNestedMap loses no entry: for every populated key k, following
\* the segments of k through the returned mapping reaches k's value.
C11_ToNestedMapLosesNoEntry ==
    \A f \in StoreIds :
        \A order \in MapOrders(World, f) :
            \A k \in Populated(World, f) :
                NestedLookup(ToNestedMap(World, f, order), Split(k))
                    = GetByDotNotation(World, f, k)

\* The operations that mutate their receiver under the lock discipline.
LockedMutations == {"Set", "SetByDotNotation", "Delete", "reset", "Merge"}

\* Goroutine g is inside a mutation of store f: in the code of a mutating
\* call on f, past the place where the call takes the lock (if it does).
InMutation(g, f) ==
    LET gr == gs[g]
        ph == Phases(gr.call)
    IN  /\ gr.i # 0
        /\ gr.call.op \in LockedMutations
        /\ gr.call.f = f
        /\ \A j \in gr.i..Len(ph) : ph[j] \notin {"lock", "lockwait"}

\* Goroutine g is inside the locked section of a read of store f: past an
\* RLock of f's mutex and not past the RUnlock that follows it.
InRead(g, f) ==
    LET gr == gs[g]
        ph == Phases(gr.call)
    IN  /\ gr.i # 0
        /\ \E j \in 1..(gr.i - 1) :
              /\ ph[j] = "rlock"
              /\ MutexOf(gr.call, j) = f
              /\ \A k \in (j + 1)..(gr.i - 1) : ph[k] # "runlock"

\* C12: while one goroutine is inside a mutation of a store (Set,
\* SetByDotNotation, Delete, Merge into it, reset), no other goroutine is
\* inside a mutation of the same store or inside the locked section of a
\* read of it.
C12_MutationsExclusive ==
    \A f \in StoreIds : \A g1, g2 \in DOMAIN gs :
        (g1 # g2 /\ InMutation(g1, f)) => (~InMutation(g2, f) /\ ~InRead(g2, f))

\* A goroutine is inside a mutation of a store while another one has asked
\* for the same store's lock, to mutate it or to read it.
C12_Witness ==
    \E f \in StoreIds : \E g1, g2 \in DOMAIN gs :
        /\ g1 # g2
        /\ InMutation(g1, f)
        /\ PhaseOf(gs[g1]) \in {"body", "loop"}
        /\ PhaseOf(gs[g2]) \in {"lockwait", "rlock"}
        /\ MutexOf(gs[g2].call, gs[g2].i) = f

\* Goroutine g is about to write store f with no lock held: it is in the
\* code of SetFast, which takes none.
InUnlockedWrite(g, f) ==
    /\ gs[g].i # 0
    /\ gs[g].call.op = "SetFast"
    /\ gs[g].call.f = f
    /\ PhaseOf(gs[g]) = "body"

\* Goroutine g holds the read lock of store f and is reading its arrays.
Reading(g, f) == InRead(g, f) /\ PhaseOf(gs[g]) \in {"body", "loop"}

\* C13: with one goroutine calling SetFast(k, v) and another Get([k]) on
\* the same store, the writer is never in the code that writes the store's
\* map or inline array while the reader is in the code that reads them.
C13_SetFastGetNeverRace ==
    \A f \in StoreIds : \A g1, g2 \in DOMAIN gs :
        g1 # g2 => ~(InUnlockedWrite(g1, f) /\ Reading(g2, f))

\* Every goroutine has made all its Set-then-Get cycles.
StressDone ==
    \A g \in DOMAIN gs : gs[g].i = 0 /\ gs[g].n = 2 * StressCycles

\* C14: NumGo goroutines each making StressCycles Set-then-Get cycles on
\* keys of their own against one shared store: no goroutine is inside a
\* Set while another is inside a Set or the locked section of a Get, every
\* Get that has returned returned the value the same goroutine just set,
\* and when all are done Size() is NumGo * StressCycles and every key is
\* found.
C14_StressCompletes ==
    \A f \in StoreIds :
        /\ \A g1, g2 \in DOMAIN gs :
              (g1 # g2 /\ InMutation(g1, f)) => (~InMutation(g2, f) /\ ~InRead(g2, f))
        /\ \A g \in DOMAIN gs :
              (gs[g].call.op = "Get" /\ gs[g].i = 0) => gs[g].ret = <<gs[g].want, TRUE>>
        /\ StressDone =>
              /\ Size(World, f) = NumGo * StressCycles
              /\ \A k \in StressKeys : Get(World, f, <<k>>)[2]

\* All cycles are done, the store holds every key, and the last Get of a
\* goroutine returned the value it had set.
C14_Witness ==
    /\ scenario = "stress"
    /\ StressDone
    /\ \A f \in StoreIds : Size(World, f) = NumGo * StressCycles
    /\ \E g \in DOMAIN gs : gs[g].call.op = "Get" /\ gs[g].ret = <<gs[g].want, TRUE>>

\* What a visitor is called with when it is shown each entry of contents c
\* once.
VisitsOf(c) == SetToBag({<<Split(e[1]), e[2]>> : e \in c})

\* C15: a Walk or Clone that has returned, having run while other
\* goroutines called Set, Delete, reset and Merge on the same store, has
\* visited or copied exactly the contents the store had at one instant
\* between its start and its return.
C15_WalkCloneSeeOneInstant ==
    \A g \in DOMAIN gs :
        LET gr == gs[g] IN
        /\ (gr.call.op = "Walk" /\ gr.i = 0) =>
              \E c \in gr.snap : gr.acc = VisitsOf(c)
        /\ (gr.call.op = "Clone" /\ gr.i = 0) =>
              \E c \in gr.snap : Contents(World, gr.ret) = c

\* The call just made handed out a store: as such, or in a record.
HandedOut == last.op \in {"NewFlatAttributesFromPool", "NewRecordFromPool"}

\* C16: the store NewFlatAttributesFromPool has just returned, and the
\* Attributes of the record NewRecordFromPool has just returned, is empty:
\* IsEmpty() is true, Size() is 0 and no key is found, whatever was
\* acquired, written and released before.
C16_PooledStoreHandedOutEmpty ==
    HandedOut =>
        /\ IsEmpty(World, last.f)
        /\ Size(World, last.f) = 0
        /\ \A k \in AllKeys : ~GetByDotNotation(World, last.f, k)[2]

\* A record is handed out again whose store an earlier borrower wrote to.
C16_Witness ==
    /\ last.op = "NewRecordFromPool"
    /\ last.f \in acquired.written
    /\ IsEmpty(World, last.f)

\* C17: the record NewRecordFromPool(level, msg) has just returned has the
\* Level and Message of the call, a nil Context, PC 0, empty Attributes and
\* an empty OutputID, whatever an earlier borrower left in it.
C17_PooledRecordCarriesNothing ==
    last.op = "NewRecordFromPool" =>
        LET r == records[last.ret]
        IN  /\ r.Level = last.value
            /\ r.Message = last.key
            /\ r.Context = Nil
            /\ r.PC = 0
            /\ IsEmpty(World, r.Attributes)
            /\ r.OutputID = <<>>

\* C18: no two records that are handed out have the same Attributes store,
\* and no store handed out by NewFlatAttributesFromPool is the Attributes
\* of a record that is handed out.
C18_StoreHasOneBorrower ==
    /\ \A r1, r2 \in acquired.records :
          r1 # r2 => records[r1].Attributes # records[r2].Attributes
    /\ \A f \in acquired.stores : \A r \in acquired.records :
          records[r].Attributes # f

\* maskValue has returned.
Masked == maskOut # <<>>

\* The display string of the value passed to maskValue, in characters.
MaskedString == Decode(Sprintf(maskIn[1].value))

\* The display string of what maskValue returned, in characters.
MaskResult == Decode(Sprintf(maskOut[1]))

\* The tag is "mask[d]" and the digits d stand for a number >= n.
TagCountAtLeast(maskTag, n) ==
    /\ FindStringSubmatch(maskTag) # <<>>
    /\ AtoiUpTo(FindStringSubmatch(maskTag), n) >= n

\* The tag is "mask[d]" and the digits d stand for the number n.
TagCountIs(maskTag, n) ==
    TagCountAtLeast(maskTag, n) /\ ~TagCountAtLeast(maskTag, n + 1)

\* C19: for a display string s, the directive "mask" gives as many '*' as
\* s has characters; "mask[N]" with 0 <= N < length(s) gives the first N
\* characters of s followed by length(s) - N characters '*'; and an empty s
\* gives an empty result.
C19_MaskKeepsLengthMasksTail ==
    Masked =>
        LET s == MaskedString
            maskTag == maskIn[1].maskTag
        IN  /\ maskTag = sMask => MaskResult = Repeat("*", Len(s))
            /\ \A N \in 0..(Len(s) - 1) :
                  TagCountIs(maskTag, N) =>
                      MaskResult = SubSeq(s, 1, N) \o Repeat("*", Len(s) - N)
            /\ (s = <<>> /\ (maskTag = sMask \/ FindStringSubmatch(maskTag) # <<>>))
                  => MaskResult = <<>>

\* C20: for the directive "mask[N]", N written in decimal digits and of
\* any magnitude, with N >= length(s), maskValue returns the value as it
\* was given.
C20_CountBeyondLengthUnmasked ==
    (Masked /\ TagCountAtLeast(maskIn[1].maskTag, Len(MaskedString)))
        => maskOut[1] = maskIn[1].value

\* The exported fields that are no structs, reachable from value through
\* nested structs, in the order ExpandStruct comes to them: each with its
\* key under prefix, its tag and its value.
RECURSIVE LeafFields(_, _)
LeafFields(prefix, value) ==
    LET val == IF value.kind = "ptr" /\ value.elem # <<>> THEN value.elem[1] ELSE value
        OfField(fld) ==
            IF ~CanInterface(fld) THEN <<>>
            ELSE IF IsNested(fld.value) THEN LeafFields(FieldKey(prefix, fld), fld.value)
            ELSE <<[key |-> FieldKey(prefix, fld), Tag |-> fld.Tag, value |-> fld.value]>>
    IN  IF val.kind # "struct" THEN <<>>
        ELSE IF Len(val.fields) = 1 THEN OfField(val.fields[1])
        ELSE OfField(val.fields[1]) \o OfField(val.fields[2])

\* The leaf fields of the value ExpandStruct was called with.
Leaves == LeafFields(expandIn[1].prefix, expandIn[1].value)

\* No later field has the key of field i.
LastAtKey(i) == \A j \in DOMAIN Leaves : j > i => Leaves[j].key # Leaves[i].key

\* The value the store's map holds at the key.
StoredAt(key) == heap[stores[ExpandStore].data][key]

\* The tag is "mask" or "mask[<digits>]".
WellFormed(tag) == tag = sMask \/ FindStringSubmatch(tag) # <<>>

\* C21: for a leaf field with the directive "mask" or "mask[N]", the value
\* ExpandStruct has stored at the field's key is a string, whatever the
\* type of the field.
C21_MaskedFieldStoredAsString ==
    expandDone =>
        \A i \in DOMAIN Leaves :
            (LastAtKey(i) /\ WellFormed(Leaves[i].Tag))
                => StoredAt(Leaves[i].key).kind = "string"

\* C22: under a directive that is neither "mask" nor "mask[<digits>]"
\* maskValue returns the value it was given, and ExpandStruct has stored
\* the field's own value.
C22_MalformedDirectiveNoMasking ==
    expandDone =>
        \A i \in DOMAIN Leaves :
            (Leaves[i].Tag # <<>> /\ ~WellFormed(Leaves[i].Tag))
                => /\ maskValue(Leaves[i].value, Leaves[i].Tag) = Leaves[i].value
                   /\ LastAtKey(i) => StoredAt(Leaves[i].key) = Leaves[i].value

\* ExpandStruct has stored a non-empty string field tagged "masked".
C22_Witness ==
    /\ expandDone
    /\ \E i \in DOMAIN Leaves :
          /\ Leaves[i].Tag = sMask \o <<"e", "d">>
          /\ Leaves[i].value = StringValue(<<"s", "s">>)
          /\ LastAtKey(i)
          /\ StoredAt(Leaves[i].key) = Leaves[i].value

\* C23: after ExpandStruct, a key of a field that is a nil pointer is held
\* only if it was held before the call.
C23_NilPointerFieldStoresNothing ==
    [][(expandDone' /\ ~expandDone) =>
          \A i \in DOMAIN Leaves :
              (Leaves[i].value.kind = "ptr" /\ Leaves[i].value.elem = <<>>)
                  => (HasByDotNotation(WorldNext, ExpandStore, Leaves[i].key)
                          => HasByDotNotation(World, ExpandStore, Leaves[i].key))]_vars

\* What ExpandStruct is to store for a leaf field: its value, masked when
\* the tag starts with "mask".
Expected(leaf) ==
    IF HasPrefix(leaf.Tag, sMask) THEN maskValue(leaf.value, leaf.Tag) ELSE leaf.value

\* C24: after ExpandStruct on a struct or a pointer to one, each exported
\* non-struct field reachable through nested structs is retrievable at its
\* key (prefix and lower-cased field names joined by "."), and no other key
\* was added: none for a nested struct as a whole, none for an unexported
\* field.
C24_OneEntryPerExportedLeaf ==
    [][(expandDone' /\ ~expandDone) =>
          /\ \A i \in DOMAIN Leaves :
                GetByDotNotation(WorldNext, ExpandStore, Leaves[i].key)
                    = <<Expected(Leaves[i]), TRUE>>
          /\ Leaves # <<>> =>
                HeldKeys(WorldNext, ExpandStore) =
                    HeldKeys(World, ExpandStore) \cup {Leaves[i].key : i \in DOMAIN Leaves}]_vars

\* C25: for a field that is a non-nil pointer to a value that is no
\* struct, ExpandStruct has stored the value pointed to, masked as the tag
\* says when the field has one.
C25_PointerFieldDereferenced ==
    expandDone =>
        \A i \in DOMAIN Leaves :
            (LastAtKey(i) /\ Leaves[i].value.kind = "ptr" /\ Leaves[i].value.elem # <<>>)
                => StoredAt(Leaves[i].key) =
                       Expected([Leaves[i] EXCEPT !.value = Leaves[i].value.elem[1]])

\* The tree below node rm, as a value: the node's value and, for each key,
\* the tree of the child.
RECURSIVE Tree(_, _)
Tree(lw, rm) ==
    [value |-> lw.nodes[rm].value,
     hasValue |-> lw.nodes[rm].hasValue,
     children |-> [k \in DOMAIN lw.nodes[rm].children |->
                      Tree(lw, lw.nodes[rm].children[k])]]

\* What logger l holds: its attributes, its groups and its callbacks.
LoggerView(l) ==
    [attrs |-> Tree(LoggerWorld, loggers[l].attrs),
     groups |-> Elements(LoggerWorld, loggers[l].groups),
     callbacks |-> Elements(LoggerWorld, loggers[l].callbacks)]

\* C26: every With* call returns a new logger and changes the attributes,
\* the groups and the callbacks of no logger that existed before it: not
\* of its receiver, not of the logger the receiver was derived from, not
\* of a sibling.
C26_LoggersImmutable ==
    [][/\ Len(loggers') = Len(loggers) + 1
       /\ last'.ret = Len(loggers')
       /\ \A l \in LoggerIds : LoggerView(l)' = LoggerView(l)]_vars

\* Two loggers derived from one receiver, one given an attribute and the
\* other a group, and a third logger just derived from the first of them
\* and unlike it.
C26_Witness ==
    /\ scenario = "loggers"
    /\ \E a, b, c \in LoggerIds :
          /\ a # b
          /\ origin[a] # NilRef
          /\ origin[a] = origin[b]
          /\ origin[c] = a
          /\ c = last.ret
          /\ LoggerView(a) # LoggerView(origin[a])
          /\ LoggerView(b) # LoggerView(origin[a])
          /\ LoggerView(a).attrs.children # EmptyMap
          /\ LoggerView(b).groups # <<>>
          /\ LoggerView(c) # LoggerView(a)

\* Goroutine g is about to read the handler field of logger l.
ReadingHandler(g, l) ==
    /\ LoggerPhaseOf(gs[g]) \in {"enabled", "handle", "load"}
    /\ gs[g].call.l = l

\* C27: with one goroutine calling SetHandler and others calling Log or
\* LogRecord on the same logger, a goroutine reads the logger's handler
\* field only while it holds the logger's mutex, and so never while
\* another goroutine is assigning the field.
C27_HandlerReadUnderMutex ==
    scenario = "handler" =>
        \A l \in LoggerIds : \A g \in DOMAIN gs :
            ReadingHandler(g, l) =>
                /\ g \in mu[l].readers \/ mu[l].writer = g
                /\ Storing(l) = {}

\* What handler h holds in state hw: the entries of its attributes and its
\* groups.
HandlerView(hw, h) ==
    [attrs |-> Contents(StoresOf(hw), hw.handlers[h].attrs),
     groups |-> Elements(hw, hw.handlers[h].groups)]

\* The handlers' state a step leads to.
HandlerWorldNext == HandlerWorld'

\* The key of the n-th attribute given to a handler with these groups.
AttrKey(groups, attrs, n) == Join(Append(groups, attrs[n].Key))

\* The entries old with the given attributes added, each at the key formed
\* by the groups followed by its own key; of two attributes with one key
\* the later stays.
WithGiven(old, groups, attrs) ==
    {p \in old : \A n \in 1..Len(attrs) : AttrKey(groups, attrs, n) # p[1]}
        \cup {<<AttrKey(groups, attrs, n), attrs[n].Value>> :
                 n \in {i \in 1..Len(attrs) :
                           \A j \in (i + 1)..Len(attrs) :
                               AttrKey(groups, attrs, j) # AttrKey(groups, attrs, i)}}

\* Handlers a and b of state hw have no store, no map and no array in
\* common, so that a write to the attributes or groups of one cannot show
\* in the other.
Apart(hw, a, b) ==
    /\ hw.handlers[a].attrs # hw.handlers[b].attrs
    /\ hw.stores[hw.handlers[a].attrs].data # hw.stores[hw.handlers[b].attrs].data
    /\ hw.handlers[a].groups.arr # hw.handlers[b].groups.arr

\* C28: BaseHandler.WithAttrs and WithGroup return a new handler and leave
\* the attributes and groups of every existing handler as they were; the
\* new handler has the receiver's entries plus, for WithAttrs, each given
\* attribute at the key of the receiver's groups followed by its key, and
\* the receiver's groups plus, for WithGroup, the given name; it shares no
\* store, map or array with another handler.
C28_HandlerWithLeavesReceiver ==
    [][scenario = "handlers" =>
          LET h == last'.f
              new == last'.ret
              before == HandlerView(HandlerWorld, h)
              after == HandlerView(HandlerWorldNext, new)
          IN  /\ new = Len(handlers) + 1
              /\ Len(handlers') = new
              /\ \A x \in HandlerIds :
                    /\ HandlerView(HandlerWorldNext, x) = HandlerView(HandlerWorld, x)
                    /\ Apart(HandlerWorldNext, x, new)
              /\ after.groups = IF last'.op = "WithGroup"
                                THEN Append(before.groups, last'.arg)
                                ELSE before.groups
              /\ after.attrs = IF last'.op = "WithAttrs"
                               THEN WithGiven(before.attrs, before.groups, last'.arg)
                               ELSE before.attrs]_vars

\* A handler that has a group and an attribute was given, by WithAttrs,
\* an attribute it had already and one it had not: the new handler's
\* entries differ from the receiver's, under keys that start with the
\* group.
C28_Witness ==
    /\ scenario = "handlers"
    /\ last.op = "WithAttrs"
    /\ Len(last.arg) > 1
    /\ LET before == HandlerView(HandlerWorld, last.f)
           after == HandlerView(HandlerWorld, last.ret)
       IN  /\ before.groups # <<>>
           /\ before.attrs # {}
           /\ after.attrs # before.attrs
           /\ \E p \in before.attrs : \E q \in after.attrs : p[1] = q[1] /\ p[2] # q[2]

\* C29: a MemoryBuffer made with maxSize > 0 has, after every Write,
\* whatever was written before and whatever the length of the slice, a
\* Size() of at most maxSize.
C29_SizeWithinMaxSize ==
    (scenario = "buffer" /\ last.op = "Write" /\ membuf[1].maxSize > 0) =>
        MemoryBufferSize(membuf[1]) <= membuf[1].maxSize

\* Goroutine g is inside a call of Merge.
InMerge(g) == gs[g].i # 0 /\ gs[g].call.op = "Merge"

\* C30: under fair scheduling every Merge that was called returns,
\* whatever the other goroutines call on the two stores: a.Merge(b) while
\* another goroutine is in b.Merge(a), and a.Merge(a) on a store that
\* holds entries, included.
C30_MergeReturns ==
    \A g \in Goroutines : (scenario = "merge" /\ InMerge(g)) ~> ~InMerge(g)

\* The inline entries of store f in world w, as a map.
InlineMap(w, f) == MigrateSmall(w.stores[f], w.stores[f].smallCount)

\* C31: on a zero-value store written by SetFast alone, after every call
\* each key written so far is found with the value last written to it and
\* Size() is the number of distinct keys written; a call that finds the
\* inline array full leaves an inline count of 0 and a map that holds the
\* eight inline entries, none lost, and the entry just written.
C31_SetFastKeepsEveryKey ==
    [][scenario = "setfast" =>
          /\ \A k \in DOMAIN last'.written :
                Get(WorldNext, 1, <<k>>) = <<last'.written[k], TRUE>>
          /\ Size(WorldNext, 1) = Cardinality(DOMAIN last'.written)
          /\ (stores[1].data = NilRef /\ stores[1].smallCount = SmallCap) =>
                /\ stores'[1].smallCount = 0
                /\ stores'[1].data # NilRef
                /\ heap'[stores'[1].data] =
                       MapPut(InlineMap(World, 1), last'.key, last'.value)]_vars

\* The ninth key has been written to a full inline array, and a key moved
\* to the map has been written again since.
C31_Witness ==
    /\ scenario = "setfast"
    /\ Cardinality(DOMAIN Written) = SmallCap + 1
    /\ stores[1].smallCount = 0
    /\ stores[1].data # NilRef
    /\ last.key = FastKey(1)
    /\ \E k \in DOMAIN Written : Written[k] # Written[FastKey(1)]

\* C32: in every state of a store reached through its operations, from
\* NewFlatAttributes() or the zero value, the inline count is between 0
\* and 8, the map is nil while the inline array holds an entry, and no key
\* is both in the inline array and in the map.
C32_OneTierInUse ==
    scenario = "sequential" =>
        \A f \in StoreIds :
            LET s == stores[f]
            IN  /\ 0 <= s.smallCount
                /\ s.smallCount <= SmallCap
                /\ s.smallCount > 0 => s.data = NilRef
                /\ s.data # NilRef =>
                      \A i \in 1..s.smallCount :
                          s.smallData[i].key \notin DOMAIN heap[s.data]

\* C33: every instance resting in a pool is in its reset state: a pooled
\* store holds no key, and a pooled record has no message, no context and
\* no attribute entry left from the borrower that released it.
C33_PooledInstancesReset ==
    scenario = "pools" =>
        /\ \A f \in flatAttributesPool :
              Size(World, f) = 0 /\ HeldKeys(World, f) = {}
        /\ \A r \in recordPool :
              /\ records[r].Message \notin Messages
              /\ records[r].Context = Nil
              /\ HeldKeys(World, records[r].Attributes) = {}

\* The nodes and the pool after the step.
TreeWorldNext == TreeWorld'

\* C34: with Set and Delete alone, RecursiveMap.Delete(path) returns true
\* exactly when Has(path) was true before the call, and Has(path) is false
\* after it.
C34_DeleteReturnsWhetherStored ==
    [][(last'.op = "TreeDelete" /\ origin'.merged = {} /\ origin'.released = {}) =>
          /\ last'.ret = RecursiveMapHas(TreeWorld, last'.f, last'.keyPath)
          /\ ~RecursiveMapHas(TreeWorldNext, last'.f, last'.keyPath)]_vars

\* C35: on a RecursiveMap reached by Set, Delete and Merge, IsEmpty() is
\* true exactly when Size() is 0.
C35_EmptyIffSizeZero ==
    scenario = "trees" =>
        \A rm \in TreeRoots \ origin.released :
            RecursiveMapIsEmpty(TreeWorld, rm) <=> RecursiveMapSize(TreeWorld, rm) = 0

\* The calls the claim names: Set, Delete and the return to the pool.
MutatingOps == {"TreeSet", "TreeDelete", "TreeReturn", "Set", "Delete", "Return"}

\* x and y were the two sides of a Merge.
Merged(x, y) == x # y /\ (<<x, y>> \in origin.merged \/ <<y, x>> \in origin.merged)

\* C36: after target.Merge(source), of FlatAttributes and of RecursiveMap
\* alike, a later Set, Delete or return to the pool of one of the two
\* changes neither the paths nor the values the other one shows, as long
\* as the other one is held.
C36_MergeSharesNothing ==
    [][\A y \in TreeRoots :
          (last'.op \in MutatingOps /\ Merged(last'.f, y) /\ y \notin origin.released) =>
              IF scenario = "trees"
              THEN Tree(TreeWorld, y) = Tree(TreeWorldNext, y)
              ELSE Contents(World, y) = Contents(WorldNext, y)]_vars

\* A RecursiveMap took a.b from another one by Merge, into nodes that a
\* third one had returned to the pool, and the source's a.b was written
\* again since.
C36_Witness ==
    /\ scenario = "trees"
    /\ last.op = "TreeSet"
    /\ last.keyPath = <<sA, sB>>
    /\ \E y \in TreeRoots :
          /\ <<y, last.f>> \in origin.merged
          /\ y # last.f
          /\ RecursiveMapHas(TreeWorld, y, <<sA, sB>>)
          /\ RecursiveMapGet(TreeWorld, y, <<sA, sB>>)[1] # last.value
          /\ nodes[y].children[sA] \in TreeRoots

\* C37: ExpandStruct returns for every value, structs that reach
\* themselves through their pointer fields included.
C37_ExpandStructTerminates == (scenario = "cyclic") => <>expandDone

\* The sub-handlers that return an error.
Failing == {k \in DOMAIN handlers : handlers[k].err # Nil}

\* C38: MultiHandler.Handle hands the record to every sub-handler in
\* order, whatever the earlier ones returned, and returns nil exactly when
\* none of them failed, else the error of the last one that failed.
C38_HandleCallsAllReturnsLastError ==
    (scenario = "multi" /\ last.done) =>
        /\ last.handled = [k \in DOMAIN handlers |-> k]
        /\ (last.ret = Nil) <=> (Failing = {})
        /\ Failing # {} =>
              last.ret = handlers[CHOOSE k \in Failing : \A j \in Failing : j <= k].err

\* Handle has returned after two sub-handlers failed with different
\* errors and a later one succeeded.
C38_Witness ==
    /\ scenario = "multi"
    /\ last.done
    /\ Len(handlers) = MaxSubHandlers
    /\ handlers[1].err # Nil
    /\ handlers[2].err \notin {Nil, handlers[1].err}
    /\ handlers[3].err = Nil

\* C39: ToNestedMap returns the same nested mapping whatever order the
\* store's map is iterated in, also when one key is a dot-prefix of
\* another.
C39_ToNestedMapDeterministic ==
    scenario = "sequential" =>
        \A f \in StoreIds :
            \A o1 \in MapOrders(World, f), o2 \in MapOrders(World, f) :
                ToNestedMap(World, f, o1) = ToNestedMap(World, f, o2)

\* C40: Set(p, v) changes what Get returns for p only: for every other
\* segment sequence q, one with the same dot-join included, Get(q) returns
\* after the call what it returned before.
C40_SetChangesItsPathOnly ==
    [][(scenario = "sequential" /\ last'.op = "Set") =>
          \A q \in KeyPaths \ {last'.keyPath} :
              Get(WorldNext, last'.f, q) = Get(World, last'.f, q)]_vars

====
